---------------------------- MODULE Spec2Model ----------------------------
(***************************************************************************)
(* Ticket-Bot: the ticket lifecycle engine, the guild ticket counter, the  *)
(* cache-backed rate limiter and the automation job scheduler, as state    *)
(* machines translated from the Python sources under src/bot.              *)
(*                                                                         *)
(* Every coroutine suspends at each await.  A handler that acts on what it *)
(* read before an await (the counter, a fetched ticket record, the list of *)
(* due jobs) is split into one action per awaited call, so that another    *)
(* coroutine can run in between.                                           *)
(***************************************************************************)
EXTENDS Integers, Sequences, FiniteSets, TLC

(***************************************************************************)
(* Finite universes and bounds                                             *)
(***************************************************************************)
Guilds == {"g1", "g2"}
Creators == {"c1", "c2", "c3"}

\* create_ticket calls explored in one run of the numbering specification
MaxCalls == 4

VARIABLES
    \* ---- guild_settings table and in-flight next_ticket_number calls ----
    guild_settings,   \* guild -> [present, ticket_counter]
    cpc,              \* creator -> position inside next_ticket_number
    cguild,           \* creator -> guild of the call in flight
    ccur,             \* creator -> local variable `current`
    issued,           \* guild -> numbers returned, in order of return
    ncalls,           \* calls started so far
    \* ---- clock, cache backend and rate limiter ----
    now,              \* wall clock, in ticks (TicksPerSecond ticks to a second)
    backend,          \* "memory" (MemoryCache) or "redis" (RedisCache), build_cache
    store,            \* cache key -> [present, value, expires_at]
    lastHit,          \* the latest hit(): its key and its RateLimitResult
    refWin,           \* cache key -> the fixed window the latest hit fell in
    \* ---- tickets, staff statistics, logs, chat platform ----
    tickets,          \* ticket id -> row of the tickets table
    staff_stats,      \* staff id -> row of the staff_stats table
    events,           \* ticket id -> event_type -> rows in ticket_events
    audits,           \* rows in audit_logs
    chan,             \* ticket id -> "open", "deleting" (hard delete sleeping), "gone"
    require_reason,   \* config.security.require_ticket_close_reason
    \* ---- interactions in flight that hold a fetched TicketRecord ----
    spc,              \* session -> position in its handler
    sticket,          \* session -> ticket id
    ssnap,            \* session -> the TicketRecord fetched
    smember,          \* session -> the member acting
    \* ---- automation_jobs and the automation worker ----
    driver,           \* Database.driver
    jobs,             \* job id -> row of automation_jobs
    guild_present,    \* bot.get_guild finds the guild
    worker_running,   \* the tasks.loop of automation_worker is alive
    ppc,              \* position of automation_worker
    pdue,             \* jobs returned by due_auto_close_jobs, not yet taken
    pjob,             \* the job being processed
    pstart,           \* what was stored when the current run began
    praised,          \* jobs of the current run whose processing raised
    pfault,           \* some call of the current run raised
    nfaults,          \* calls that raised so far
    \* ---- the two cache backends side by side, and concurrent incr callers ----
    mstore,           \* MemoryCache._store, driven by the common call sequence
    rstore,           \* the Redis keyspace, driven by the same sequence
    mret,             \* what MemoryCache.incr returned last
    rret,             \* what RedisCache.incr returned last
    ipc,              \* caller -> position inside CacheBackend.incr
    ikey,             \* caller -> key argument
    ittl,             \* caller -> ttl argument
    iret,             \* key -> values returned since the key's counter last began
    lock,             \* holder of MemoryCache._lock
    icalls,           \* incr calls started so far
    \* ---- create_ticket calls in flight and what they persist ----
    blacklist,        \* user -> row of ticket_blacklist
    cooldown_seconds, \* config.security.ticket_creation_cooldown_seconds
    kstore,           \* the cache keys ticket:cooldown:g:u and ticket:hourly:g:u
    rows,             \* tickets inserted by create_ticket, in order
    participants,     \* ticket_participants: <<ticket id, user>>
    create_events,    \* ticket id -> create events logged
    nchannels,        \* text channels created so far
    kpc,              \* opener -> position inside create_ticket
    kcat,             \* opener -> key of the category resolved
    kcur,             \* opener -> `current` read by next_ticket_number
    knum,             \* opener -> ticket_number allocated
    kchan,            \* opener -> id of the channel created
    kid,              \* opener -> id of the ticket row inserted
    kcreated,         \* opener -> created_at of the record built
    kwrote,           \* opener -> the call has written counter, row or event
    kwin,             \* cache key -> the fixed window its hits fall in
    klog,             \* outcome of the call that returned last
    kcalls,           \* create_ticket and blacklist_add calls started so far
    \* ---- callers of the automation service ----
    sched,            \* the last call that asked for an auto-close, and its outcome
    closing,          \* the last close_ticket call: its reason and its outcome
    escalating,       \* the last escalate call: its level and its outcome
    \* ---- SecurityService: the two detectors ----
    security_events,  \* rows of security_events, in order of insertion
    dcall,            \* detector call -> its position, arguments and hit result
    dres,             \* what the detector call that returned last returned
    ndetects,
    \* record_feedback
    ticket_ratings,  \* rows of ticket_ratings
    feedback_cols,   \* ticket -> feedback_stars and feedback_text of its tickets row
    feedback_events, \* feedback events of the event log, in order
    fcall,           \* record_feedback call -> its position and arguments
    fres,            \* the arguments and outcome of the call that ended last
    nfeedback,
    \* sanitize_channel_fragment
    frag_name,       \* the argument, a sequence of characters
    frag_result,     \* what the call returned
    frag_done,       \* whether the call has been made
    \* add_internal_note
    internal_notes,  \* internal_notes_json of the ticket's row
    ncall,           \* add_internal_note call -> its position, note and the list it read
    note_res,        \* the number and outcome of the call that ended last
    note_added,      \* the notes of the calls that returned
    nnotes,          \* calls started so far
    \* one rate limiter with its configured limit and window
    hlimit,          \* limit= of its hit calls
    hwindow,         \* window_seconds= of its hit calls
    allowed_at,      \* key -> time -> hits at that time returned with allowed = true
    win_allowed      \* key -> hits of the current fixed window returned with allowed = true          \* detector calls started so far

numVars == <<guild_settings, cpc, cguild, ccur, issued, ncalls>>
rateVars == <<backend, store, lastHit, refWin>>
lifeVars == <<tickets, staff_stats, events, audits, chan, require_reason>>
sessVars == <<spc, sticket, ssnap, smember>>

jobVars == <<driver, jobs, guild_present, worker_running>>
pollVars == <<ppc, pdue, pjob, pstart, praised, pfault, nfaults>>

pairVars == <<mstore, rstore, mret, rret>>
incrVars == <<ipc, ikey, ittl, iret, lock, icalls>>
cacheVars == <<pairVars, incrVars>>
createTables == <<blacklist, cooldown_seconds, kstore, rows, participants, create_events, nchannels>>
createCalls == <<kpc, kcat, kcur, knum, kchan, kid, kcreated, kwrote, kwin, klog, kcalls>>
createVars == <<createTables, createCalls>>
callVars == <<sched, closing, escalating>>
detectVars == <<security_events, dcall, dres, ndetects>>
feedbackVars == <<ticket_ratings, feedback_cols, feedback_events, fcall, fres, nfeedback>>
sanitizeVars == <<frag_name, frag_result, frag_done>>
noteVars == <<internal_notes, ncall, note_res, note_added, nnotes>>
limiterVars == <<hlimit, hwindow, allowed_at, win_allowed>>
moreVars == <<detectVars, feedbackVars, sanitizeVars, noteVars, limiterVars>>
detectRest == <<feedbackVars, sanitizeVars, noteVars, limiterVars>>

vars == <<numVars, now, rateVars, lifeVars, sessVars, jobVars, pollVars, cacheVars, createVars, callVars, moreVars>>

coreVars ==
    <<numVars, now, rateVars, lifeVars, sessVars, jobVars, pollVars, cacheVars, createVars,
      callVars>>
notFeedback == <<coreVars, detectVars, sanitizeVars, noteVars, limiterVars>>
notSanitize == <<coreVars, detectVars, feedbackVars, noteVars, limiterVars>>
notNote == <<coreVars, detectVars, feedbackVars, sanitizeVars, limiterVars>>
notLimiter ==
    <<numVars, lifeVars, sessVars, jobVars, pollVars, cacheVars, createVars, callVars,
      detectVars, feedbackVars, sanitizeVars, noteVars>>
notNum == <<now, rateVars, lifeVars, sessVars, jobVars, pollVars, cacheVars, createVars, callVars, moreVars>>
notRate == <<numVars, lifeVars, sessVars, jobVars, pollVars, cacheVars, createVars, callVars, moreVars>>
notLife == <<numVars, now, rateVars, jobVars, pollVars, cacheVars, createVars, callVars, moreVars>>
notPoll == <<numVars, rateVars, sessVars, cacheVars, createVars, callVars, moreVars>>
notCache == <<numVars, lifeVars, sessVars, jobVars, pollVars, createVars, callVars, moreVars>>
notCreate == <<rateVars, lifeVars, sessVars, jobVars, pollVars, cacheVars, callVars, moreVars>>
notSched == <<numVars, rateVars, sessVars, cacheVars, createVars, moreVars>>
notClose == <<numVars, now, rateVars, jobVars, pollVars, cacheVars, createVars, sched, escalating, moreVars>>
notEscalate == <<numVars, now, rateVars, jobVars, pollVars, cacheVars, createVars, sched, closing, moreVars>>

(***************************************************************************)
(* GuildRepository                                                         *)
(***************************************************************************)
NoGuildRow == [present |-> FALSE, ticket_counter |-> 0]

\* INSERT INTO guild_settings(guild_id) ... ON CONFLICT DO NOTHING
ensure_guild(gs, g) ==
    IF gs[g].present THEN gs
    ELSE [gs EXCEPT ![g] = [present |-> TRUE, ticket_counter |-> 0]]

\* SELECT ticket_counter ...; current = int(row[...]) if row else 0
read_ticket_counter(gs, g) ==
    IF gs[g].present THEN gs[g].ticket_counter ELSE 0

\* UPDATE guild_settings SET ticket_counter = ? WHERE guild_id = ?
write_ticket_counter(gs, g, nxt) ==
    IF gs[g].present THEN [gs EXCEPT ![g].ticket_counter = nxt] ELSE gs

\* create_ticket reaches build_ticket_name -> next_ticket_number(guild_id)
StartCreate(c, g) ==
    /\ cpc[c] = "idle"
    /\ ncalls < MaxCalls
    /\ cpc' = [cpc EXCEPT ![c] = "ensure"]
    /\ cguild' = [cguild EXCEPT ![c] = g]
    /\ ncalls' = ncalls + 1
    /\ UNCHANGED <<guild_settings, ccur, issued, notNum>>

\* await self.ensure_guild(guild_id)
NtnEnsure(c) ==
    /\ cpc[c] = "ensure"
    /\ guild_settings' = ensure_guild(guild_settings, cguild[c])
    /\ cpc' = [cpc EXCEPT ![c] = "read"]
    /\ UNCHANGED <<cguild, ccur, issued, ncalls, notNum>>

\* row = await self.db.fetchone(...); current = ...
NtnRead(c) ==
    /\ cpc[c] = "read"
    /\ ccur' = [ccur EXCEPT ![c] = read_ticket_counter(guild_settings, cguild[c])]
    /\ cpc' = [cpc EXCEPT ![c] = "write"]
    /\ UNCHANGED <<guild_settings, cguild, issued, ncalls, notNum>>

\* nxt = current + 1; await self.db.execute(UPDATE ...); return nxt
NtnWrite(c) ==
    /\ cpc[c] = "write"
    /\ guild_settings' = write_ticket_counter(guild_settings, cguild[c], ccur[c] + 1)
    /\ issued' = [issued EXCEPT ![cguild[c]] = Append(@, ccur[c] + 1)]
    /\ cpc' = [cpc EXCEPT ![c] = "idle"]
    /\ UNCHANGED <<cguild, ccur, ncalls, notNum>>

NumInit ==
    /\ guild_settings = [g \in Guilds |-> NoGuildRow]
    /\ cpc = [c \in Creators |-> "idle"]
    /\ cguild = [c \in Creators |-> "g1"]
    /\ ccur = [c \in Creators |-> 0]
    /\ issued = [g \in Guilds |-> <<>>]
    /\ ncalls = 0

(***************************************************************************)
(* Cache backends (services/cache.py) and DistributedRateLimiter           *)
(***************************************************************************)
Keys == {"k1", "k2"}
Backends == {"memory", "redis"}

\* clock resolution of the model
TicksPerSecond == 2
\* last clock value explored by the rate-limiter specification
MaxRateTime == 4
\* hits on one live counter explored
MaxCount == 3
\* window_seconds and limit arguments explored (0 seconds included)
MaxWindow == 2
MaxLimit == 2
Windows == 0 .. MaxWindow
Limits == 1 .. MaxLimit

\* expires_at = None
NoExpiry == -1
NoEntry == [present |-> FALSE, value |-> 0, expires_at |-> NoExpiry]

\* an entry dropped one tick before its time
_is_expired_early(entry, t) ==
    IF entry.expires_at = NoExpiry THEN FALSE ELSE t + 1 >= entry.expires_at

\* MemoryCache._is_expired; Redis drops a key whose time to live has run out
_is_expired(entry, t) ==
    IF entry.expires_at = NoExpiry THEN FALSE ELSE t >= entry.expires_at

\* an incr that stores the value it read
MemoryIncrStale(st, k, ttl, t) ==
    IF ~st[k].present \/ _is_expired(st[k], t)
    THEN [st EXCEPT ![k] = [present |-> TRUE, value |-> 1, expires_at |-> NoExpiry]]
    ELSE st

\* MemoryCache.incr: one critical section under self._lock
MemoryIncr(st, k, ttl, t) ==
    LET entry == st[k] IN
    IF ~entry.present \/ _is_expired(entry, t)
    THEN [st EXCEPT ![k] = [present |-> TRUE, value |-> 1,
                            expires_at |-> IF ttl # 0 THEN t + ttl * TicksPerSecond
                                                      ELSE NoExpiry]]
    ELSE [st EXCEPT ![k] = [present |-> TRUE, value |-> entry.value + 1,
                            expires_at |-> entry.expires_at]]

\* RedisCache.incr: MULTI; INCR key; EXPIRE key ttl (when ttl is truthy); EXEC
RedisIncr(st, k, ttl, t) ==
    LET entry == st[k]
        live == entry.present /\ ~_is_expired(entry, t)
        incremented == IF live THEN [entry EXCEPT !.value = @ + 1]
                       ELSE [present |-> TRUE, value |-> 1, expires_at |-> NoExpiry]
    IN  [st EXCEPT ![k] = IF ttl # 0
                          THEN [incremented EXCEPT !.expires_at = t + ttl * TicksPerSecond]
                          ELSE incremented]

\* CacheBackend.incr of the backend build_cache selected
CacheIncr(st, k, ttl, t) ==
    IF backend = "memory" THEN MemoryIncr(st, k, ttl, t) ELSE RedisIncr(st, k, ttl, t)

\* a result that lets one hit more through
RateLimitResultOneMore(current, limit) ==
    [allowed |-> current <= limit + 1, current |-> current, limit |-> limit]

\* RateLimitResult(allowed=current <= limit, current=current, limit=limit)
RateLimitResult(current, limit) ==
    [allowed |-> current <= limit, current |-> current, limit |-> limit]

\* no hit() made yet
NoHit == [key |-> "none", result |-> RateLimitResult(0, 0)]

\* The fixed window a hit at time t belongs to: the window the first hit armed
\* while it lasts, else a new window armed by this hit.
RefWindowAfterHit(w, window, t) ==
    IF w.count > 0 /\ t < w.end
    THEN [w EXCEPT !.count = @ + 1]
    ELSE [count |-> 1, end |-> t + window * TicksPerSecond]

\* DistributedRateLimiter.hit(key, limit=, window_seconds=)
hit(k, limit, window) ==
    /\ store[k].present /\ ~_is_expired(store[k], now) => store[k].value < MaxCount
    /\ store' = CacheIncr(store, k, window, now)
    /\ lastHit' = [key |-> k, result |-> RateLimitResult(store'[k].value, limit)]
    /\ refWin' = [refWin EXCEPT ![k] = RefWindowAfterHit(@, window, now)]

\* a hit with any limit and window
Hit(k, limit, window) ==
    /\ hit(k, limit, window)
    /\ UNCHANGED <<now, backend, notRate>>

\* a hit of a limiter whose callers always pass the configured limit and
\* window, as check_rate_limit and the security checks do
ConfiguredHit(k) ==
    /\ hit(k, hlimit, hwindow)
    /\ LET one == IF lastHit'.result.allowed THEN 1 ELSE 0 IN
       /\ allowed_at' = [allowed_at EXCEPT ![k][now] = @ + one]
       /\ win_allowed' = [win_allowed EXCEPT ![k] = IF refWin'[k].count = 1 THEN one
                                                    ELSE @ + one]
    /\ UNCHANGED <<now, backend, hlimit, hwindow, notLimiter>>

\* time passes
RateTick ==
    /\ now < MaxRateTime
    /\ now' = now + 1
    /\ UNCHANGED <<rateVars, notRate>>

RateInit ==
    /\ now = 0
    /\ backend \in Backends
    /\ store = [k \in Keys |-> NoEntry]
    /\ lastHit = NoHit
    /\ refWin = [k \in Keys |-> [count |-> 0, end |-> 0]]

RateNext ==
    \/ \E k \in Keys, limit \in Limits, window \in Windows : Hit(k, limit, window)
    \/ RateTick

\* no configured limiter in sight
LimiterIdle ==
    /\ hlimit = 1
    /\ hwindow = 0
    /\ allowed_at = [k \in Keys |-> [t \in 0 .. MaxRateTime |-> 0]]
    /\ win_allowed = [k \in Keys |-> 0]

\* a limiter configured with any limit and window
LimiterInit ==
    /\ hlimit \in Limits
    /\ hwindow \in Windows
    /\ allowed_at = [k \in Keys |-> [t \in 0 .. MaxRateTime |-> 0]]
    /\ win_allowed = [k \in Keys |-> 0]

LimiterNext ==
    \/ \E k \in Keys : ConfiguredHit(k)
    \/ RateTick

(***************************************************************************)
(* The two CacheBackend implementations driven by one sequence of calls    *)
(***************************************************************************)
\* the same incr(key, ttl) reaches a MemoryCache and a RedisCache
PairIncr(k, ttl) ==
    /\ mstore[k].value < MaxCount
    /\ rstore[k].value < MaxCount
    /\ mstore' = MemoryIncr(mstore, k, ttl, now)
    /\ rstore' = RedisIncr(rstore, k, ttl, now)
    /\ mret' = mstore'[k].value
    /\ rret' = rstore'[k].value
    /\ UNCHANGED <<now, rateVars, incrVars, notCache>>

\* the clock both backends read
PairTick ==
    /\ now < MaxRateTime
    /\ now' = now + 1
    /\ UNCHANGED <<rateVars, cacheVars, notCache>>

PairNext ==
    \/ \E k \in Keys, ttl \in Windows : PairIncr(k, ttl)
    \/ PairTick

(***************************************************************************)
(* Concurrent callers of CacheBackend.incr                                 *)
(***************************************************************************)
Callers == {"u1", "u2", "u3"}
\* incr calls started in one run
MaxIncrCalls == 3

\* a caller awaits cache.incr(key, ttl)
IncrCall(c, k, ttl) ==
    /\ ipc[c] = "idle"
    /\ icalls < MaxIncrCalls
    /\ icalls' = icalls + 1
    /\ ipc' = [ipc EXCEPT ![c] = "wait"]
    /\ ikey' = [ikey EXCEPT ![c] = k]
    /\ ittl' = [ittl EXCEPT ![c] = ttl]
    /\ UNCHANGED <<iret, lock, now, rateVars, pairVars, notCache>>

\* MemoryCache.incr: async with self._lock, entered
MemAcquire(c) ==
    /\ backend = "memory"
    /\ ipc[c] = "wait"
    /\ lock = "free"
    /\ lock' = c
    /\ ipc' = [ipc EXCEPT ![c] = "locked"]
    /\ UNCHANGED <<ikey, ittl, iret, icalls, now, rateVars, pairVars, notCache>>

\* the values returned for key k since its counter last began at an absent
\* or expired key, with the value of this call added
returned_after(k, v) ==
    IF ~store[k].present \/ _is_expired(store[k], now)
    THEN <<v>>
    ELSE Append(iret[k], v)

\* the caller has its value: its locals are gone
IncrReturn(c) ==
    /\ ipc' = [ipc EXCEPT ![c] = "idle"]
    /\ ikey' = [ikey EXCEPT ![c] = "k1"]
    /\ ittl' = [ittl EXCEPT ![c] = 0]

\* MemoryCache.incr: the body under the lock (it has no await), and release
MemBody(c) ==
    /\ ipc[c] = "locked"
    /\ lock = c
    /\ store' = MemoryIncr(store, ikey[c], ittl[c], now)
    /\ iret' = [iret EXCEPT ![ikey[c]] = returned_after(ikey[c], store'[ikey[c]].value)]
    /\ lock' = "free"
    /\ IncrReturn(c)
    /\ UNCHANGED <<icalls, now, backend, lastHit, refWin, pairVars, notCache>>

\* RedisCache.incr: pipe.execute() runs MULTI ... EXEC on the server
RedisExec(c) ==
    /\ backend = "redis"
    /\ ipc[c] = "wait"
    /\ store' = RedisIncr(store, ikey[c], ittl[c], now)
    /\ iret' = [iret EXCEPT ![ikey[c]] = returned_after(ikey[c], store'[ikey[c]].value)]
    /\ IncrReturn(c)
    /\ UNCHANGED <<lock, icalls, now, backend, lastHit, refWin, pairVars, notCache>>

\* time passes while callers wait
IncrTick ==
    /\ now < MaxRateTime
    /\ now' = now + 1
    /\ UNCHANGED <<rateVars, cacheVars, notCache>>

IncrNext ==
    \/ \E c \in Callers, k \in Keys, ttl \in Windows : IncrCall(c, k, ttl)
    \/ \E c \in Callers : MemAcquire(c)
    \/ \E c \in Callers : MemBody(c)
    \/ \E c \in Callers : RedisExec(c)
    \/ IncrTick

CacheInit ==
    /\ mstore = [k \in Keys |-> NoEntry]
    /\ rstore = [k \in Keys |-> NoEntry]
    /\ mret = 0
    /\ rret = 0
    /\ ipc = [c \in Callers |-> "idle"]
    /\ ikey = [c \in Callers |-> "k1"]
    /\ ittl = [c \in Callers |-> 0]
    /\ iret = [k \in Keys |-> <<>>]
    /\ lock = "free"
    /\ icalls = 0

(***************************************************************************)
(* Tickets: TicketRepository, StaffStatsRepository, EventRepository        *)
(***************************************************************************)
Tickets == {"t1"}
Staff == {"a1", "a2"}
\* opener_id of the tickets: a member with no staff role
TicketOpener == "o1"
\* the members who can write in a ticket channel
Members == Staff \cup {TicketOpener}
\* self.bot.user.id, the actor of an automated close
BotUser == "bot"
\* None in an id column, a text column, a timestamp column
NoOne == "none"
NoReason == "<null>"
NoTime == -1

\* close reasons typed by staff: empty, blank, and a real one
Reasons == {"", " ", "resolved"}
\* str.strip() on those
strip(r) == IF r = " " THEN "" ELSE r

EventTypes == {"claim", "unclaim", "lock", "unlock", "close", "reopen", "escalate"}
\* ticket_events rows written in one run, over all tickets
MaxEvents == 3

\* a row as TicketService.create_ticket inserts it (TicketRecord defaults)
NewTicket ==
    [status |-> "open", is_locked |-> FALSE,
     claimed_by_id |-> NoOne, claimed_at |-> NoTime,
     first_response_at |-> NoTime, first_response_by_id |-> NoOne,
     close_reason |-> NoReason, closed_by_id |-> NoOne, closed_at |-> NoTime,
     reopened_count |-> 0, soft_deleted |-> FALSE, hard_deleted |-> FALSE,
     has_transcript |-> FALSE, created_at |-> 0, escalation_level |-> 0]

\* CURRENT_TIMESTAMP: the database clock has whole seconds
CURRENT_TIMESTAMP(t) == t - (t % TicksPerSecond)

\* TicketRepository.set_status
set_status(tk, t, status, close_reason, closed_by_id, ts) ==
    IF status = "closed"
    THEN [tk EXCEPT ![t].status = status, ![t].close_reason = close_reason,
                    ![t].closed_by_id = closed_by_id, ![t].closed_at = ts]
    ELSE [tk EXCEPT ![t].status = status]

\* TicketRepository.set_locked
set_locked(tk, t, is_locked) ==
    [tk EXCEPT ![t].is_locked = is_locked,
               ![t].status = IF is_locked THEN "locked" ELSE "open"]

\* TicketRepository.set_claimed
set_claimed(tk, t, staff_id, ts) ==
    [tk EXCEPT ![t].claimed_by_id = staff_id,
               ![t].claimed_at = IF staff_id # NoOne THEN ts ELSE NoTime]

\* TicketRepository.increment_reopened
increment_reopened(tk, t) == [tk EXCEPT ![t].reopened_count = @ + 1]

\* TicketRepository.mark_soft_deleted
mark_soft_deleted(tk, t) == [tk EXCEPT ![t].soft_deleted = TRUE]

\* TicketRepository.mark_hard_deleted
mark_hard_deleted(tk, t) == [tk EXCEPT ![t].hard_deleted = TRUE, ![t].status = "deleted"]

\* TicketRepository.set_transcripts
set_transcripts(tk, t) == [tk EXCEPT ![t].has_transcript = TRUE]

\* record_first_response without COALESCE
record_first_response_overwrite(tk, t, staff_id, ts) ==
    [tk EXCEPT ![t].first_response_at = ts, ![t].first_response_by_id = staff_id]

\* TicketRepository.record_first_response: COALESCE keeps a value already set
record_first_response(tk, t, staff_id, ts) ==
    [tk EXCEPT ![t].first_response_at = IF @ # NoTime THEN @ ELSE ts,
               ![t].first_response_by_id = IF @ # NoOne THEN @ ELSE staff_id]

\* a staff_stats row as _ensure inserts it
NewStaffRow ==
    [tickets_claimed |-> 0, tickets_closed |-> 0, total_messages |-> 0,
     first_response_count |-> 0, total_first_response_seconds |-> 0]

increment_claimed(ss, a) == [ss EXCEPT ![a].tickets_claimed = @ + 1]
increment_closed(ss, a) == [ss EXCEPT ![a].tickets_closed = @ + 1]
add_message(ss, a) == [ss EXCEPT ![a].total_messages = @ + 1]
add_first_response(ss, a, seconds) ==
    [ss EXCEPT ![a].total_first_response_seconds = @ + seconds,
               ![a].first_response_count = @ + 1]

\* EventRepository.log
event_log(ev, t, event_type) == [ev EXCEPT ![t][event_type] = @ + 1]

EventTotal(t) ==
    events[t]["claim"] + events[t]["unclaim"] + events[t]["lock"]
    + events[t]["unlock"] + events[t]["close"] + events[t]["reopen"]
    + events[t]["escalate"]

\* a staff command can be typed in the ticket's channel: the channel exists
\* (_current_ticket), and the run still has room for its event
RECURSIVE EventsOver(_)
EventsOver(ts) ==
    IF ts = {} THEN 0
    ELSE LET t == CHOOSE x \in ts : TRUE IN EventTotal(t) + EventsOver(ts \ {t})

CanCommand(t) == chan[t] # "gone" /\ EventsOver(Tickets) < MaxEvents

(***************************************************************************)
(* TicketService operations as the cog commands and buttons call them.     *)
(* lock, unlock, close, reopen, unclaim and the deletes read nothing of    *)
(* the fetched TicketRecord but its id and guild, so each is one action.   *)
(***************************************************************************)
\* /ticket lock: TicketService.lock_ticket
LockTicket(t) ==
    /\ CanCommand(t)
    /\ tickets' = set_locked(tickets, t, TRUE)
    /\ events' = event_log(events, t, "lock")
    /\ audits' = audits + 1
    /\ UNCHANGED <<staff_stats, chan, require_reason, sessVars, notLife>>

\* /ticket unlock: TicketService.unlock_ticket
UnlockTicket(t) ==
    /\ CanCommand(t)
    /\ tickets' = set_locked(tickets, t, FALSE)
    /\ events' = event_log(events, t, "unlock")
    /\ audits' = audits + 1
    /\ UNCHANGED <<staff_stats, chan, require_reason, sessVars, notLife>>

\* TicketService.close_ticket: the writes it makes once the reason is accepted
\* a close that leaves a closed ticket as it is
close_ticket_tickets_guarded(tk, t, actor_id, reason, ts) ==
    IF tk[t].status = "closed" THEN tk ELSE set_status(tk, t, "closed", reason, actor_id, ts)

close_ticket_tickets(tk, t, actor_id, reason, ts) ==
    set_status(tk, t, "closed", reason, actor_id, ts)

\* a reason check that does not strip
close_reason_rejected_unstripped(reason) == require_reason /\ reason = ""

\* the reason check at the head of TicketService.close_ticket
close_reason_rejected(reason) == require_reason /\ strip(reason) = ""

NoClosing == [reason |-> NoReason, result |-> "none"]

\* /ticket close, the close modal, /ticket forceclose (del: delete the channel)
CloseTicket(t, a, reason, del) ==
    /\ CanCommand(t)
    /\ IF close_reason_rejected(reason)
       THEN /\ closing' = [reason |-> reason, result |-> "ValidationError"]
            /\ UNCHANGED <<tickets, staff_stats, events, audits, chan>>
       ELSE /\ closing' = [reason |-> reason, result |-> "closed"]
            /\ tickets' = set_transcripts(close_ticket_tickets(tickets, t, a, reason, CURRENT_TIMESTAMP(now)), t)
            /\ staff_stats' = increment_closed(staff_stats, a)
            /\ events' = event_log(events, t, "close")
            /\ audits' = audits + 1
            /\ chan' = IF del THEN [chan EXCEPT ![t] = "gone"] ELSE chan
    /\ UNCHANGED <<require_reason, sessVars, notClose>>

\* /ticket reopen: TicketService.reopen_ticket
ReopenTicket(t) ==
    /\ CanCommand(t)
    /\ tickets' = increment_reopened(set_status(tickets, t, "open", NoReason, NoOne, now), t)
    /\ events' = event_log(events, t, "reopen")
    /\ audits' = audits + 1
    /\ UNCHANGED <<staff_stats, chan, require_reason, sessVars, notLife>>

\* /ticket unclaim: TicketService.unclaim_ticket
UnclaimTicket(t) ==
    /\ CanCommand(t)
    /\ tickets' = set_claimed(tickets, t, NoOne, now)
    /\ events' = event_log(events, t, "unclaim")
    /\ audits' = audits + 1
    /\ UNCHANGED <<staff_stats, chan, require_reason, sessVars, notLife>>

\* /ticket softdelete
SoftDelete(t) ==
    /\ chan[t] # "gone"
    /\ tickets' = mark_soft_deleted(tickets, t)
    /\ UNCHANGED <<staff_stats, events, audits, chan, require_reason, sessVars, notLife>>

\* /ticket harddelete up to asyncio.sleep(5)
HardDeleteMark(t) ==
    /\ chan[t] # "gone"
    /\ tickets' = mark_hard_deleted(tickets, t)
    /\ chan' = [chan EXCEPT ![t] = "deleting"]
    /\ UNCHANGED <<staff_stats, events, audits, require_reason, sessVars, notLife>>

\* /ticket harddelete after the sleep: channel.delete
HardDeleteChannel(t) ==
    /\ chan[t] = "deleting"
    /\ chan' = [chan EXCEPT ![t] = "gone"]
    /\ UNCHANGED <<tickets, staff_stats, events, audits, require_reason, sessVars, notLife>>

(***************************************************************************)
(* claim: the caller fetches the TicketRecord, then claim_ticket checks    *)
(* the status of that record and writes.                                   *)
(***************************************************************************)
Sessions == {"s1", "s2"}
\* the fields of a fetched TicketRecord that claim_ticket and
\* register_staff_message read later (id and guild_id never change)
Fetched(ticket) ==
    [status |-> ticket.status, first_response_at |-> ticket.first_response_at,
     created_at |-> ticket.created_at]
ClaimableStatuses == {"open", "pending", "locked"}

\* the handler returns: its locals are gone
Return(s) ==
    /\ spc' = [spc EXCEPT ![s] = "idle"]
    /\ sticket' = [sticket EXCEPT ![s] = "t1"]
    /\ ssnap' = [ssnap EXCEPT ![s] = Fetched(NewTicket)]
    /\ smember' = [smember EXCEPT ![s] = "a1"]

\* claim button / /ticket claim: get_ticket_for_channel, _current_ticket
ClaimFetch(s, t, a) ==
    /\ spc[s] = "idle"
    /\ CanCommand(t)
    /\ spc' = [spc EXCEPT ![s] = "claim"]
    /\ sticket' = [sticket EXCEPT ![s] = t]
    /\ ssnap' = [ssnap EXCEPT ![s] = Fetched(tickets[t])]
    /\ smember' = [smember EXCEPT ![s] = a]
    /\ UNCHANGED <<lifeVars, notLife>>

\* the status test of TicketService.claim_ticket, on the record passed in
claim_allowed(ticket) == ticket.status \in ClaimableStatuses

\* TicketService.claim_ticket
ClaimAct(s) ==
    /\ spc[s] = "claim"
    /\ IF claim_allowed(ssnap[s])
       THEN /\ tickets' = set_claimed(tickets, sticket[s], smember[s], now)
            /\ staff_stats' = increment_claimed(staff_stats, smember[s])
            /\ events' = event_log(events, sticket[s], "claim")
            /\ audits' = audits + 1
       ELSE UNCHANGED <<tickets, staff_stats, events, audits>>
    /\ Return(s)
    /\ UNCHANGED <<chan, require_reason, notLife>>

(***************************************************************************)
(* Staff messages: EventsCog.on_message fetches the ticket of the channel, *)
(* then TicketService.register_staff_message runs its three awaits.        *)
(***************************************************************************)
\* messages handled in one run
MaxMessages == 3
\* last clock tick of a run of the message handlers
MaxFirstTime == 3

\* int(delta.total_seconds()) for utc_now() - created_at
response_seconds(created_at, t) == (t - created_at) \div TicksPerSecond

MessagesStarted ==
    staff_stats["a1"].total_messages + staff_stats["a2"].total_messages
    + staff_stats[TicketOpener].total_messages
    + Cardinality({s \in Sessions : spc[s] = "msg_add"})

\* on_message: get_by_channel, then the call of register_staff_message; the
\* author is any member who is not a bot, no role is asked for
MsgFetch(s, t, a) ==
    /\ spc[s] = "idle"
    /\ chan[t] # "gone"
    /\ MessagesStarted < MaxMessages
    /\ spc' = [spc EXCEPT ![s] = "msg_add"]
    /\ sticket' = [sticket EXCEPT ![s] = t]
    /\ ssnap' = [ssnap EXCEPT ![s] = Fetched(tickets[t])]
    /\ smember' = [smember EXCEPT ![s] = a]
    /\ UNCHANGED <<lifeVars, notLife>>

\* register_staff_message: staff_repo.add_message, then the test of the
\* fetched record's first_response_at
MsgAddMessage(s) ==
    /\ spc[s] = "msg_add"
    /\ staff_stats' = add_message(staff_stats, smember[s])
    /\ IF ssnap[s].first_response_at = NoTime
       THEN /\ spc' = [spc EXCEPT ![s] = "msg_metric"]
            /\ UNCHANGED <<sticket, ssnap, smember>>
       ELSE Return(s)
    /\ UNCHANGED <<tickets, events, audits, chan, require_reason, notLife>>

\* register_staff_message: staff_repo.add_first_response
MsgMetric(s) ==
    /\ spc[s] = "msg_metric"
    /\ staff_stats' = add_first_response(staff_stats, smember[s],
                                         response_seconds(ssnap[s].created_at, now))
    /\ spc' = [spc EXCEPT ![s] = "msg_record"]
    /\ UNCHANGED <<tickets, events, audits, chan, require_reason,
                   sticket, ssnap, smember, notLife>>

\* register_staff_message: ticket_repo.record_first_response
MsgRecord(s) ==
    /\ spc[s] = "msg_record"
    /\ tickets' = record_first_response(tickets, sticket[s], smember[s], CURRENT_TIMESTAMP(now))
    /\ Return(s)
    /\ UNCHANGED <<staff_stats, events, audits, chan, require_reason, notLife>>

\* time passes between awaits
FirstTick ==
    /\ now < MaxFirstTime
    /\ now' = now + 1
    /\ UNCHANGED <<numVars, rateVars, lifeVars, sessVars, jobVars, pollVars, cacheVars, createVars,
                   callVars, moreVars>>

FirstNext ==
    \/ \E s \in Sessions, t \in Tickets, a \in Members : MsgFetch(s, t, a)
    \/ \E s \in Sessions : MsgAddMessage(s)
    \/ \E s \in Sessions : MsgMetric(s)
    \/ \E s \in Sessions : MsgRecord(s)
    \/ FirstTick
    \/ \E t \in Tickets : SoftDelete(t)
    \/ \E t \in Tickets : HardDeleteMark(t)
    \/ \E t \in Tickets : HardDeleteChannel(t)

(***************************************************************************)
(* AutomationService: the automation_jobs table                            *)
(***************************************************************************)
JobIds == {"j1", "j2"}
Drivers == {"sqlite", "postgresql"}
Terminal == {"completed", "failed", "cancelled"}
\* no row with that id (cancelled_early is not a column: it notes that
\* cancel_job found the job pending and not yet due)
NoJob == [status |-> "absent", ticket_id |-> "t1", run_at |-> 0, cancelled_early |-> FALSE]

\* timedelta(minutes=1) in seconds
SecondsPerMinute == 60
MinuteTicks == SecondsPerMinute * TicksPerSecond
\* the clock of a run of the worker: whole minutes 0 .. MaxMinute, each
\* followed by one more tick
MaxMinute == 1
TimePoints == {m * MinuteTicks + f : m \in 0 .. MaxMinute, f \in {0, 1}}

\* the upper limit /ticket scheduleclose accepts
MaxScheduleMinutes == 10080
\* minutes typed by staff: too small, accepted, too large
MinuteInputs == {0, 1, MaxScheduleMinutes + 1}

\* uuid4(): an id no row has yet
fresh_job_id(jb) == IF jb["j1"].status = "absent" THEN "j1" ELSE "j2"

\* AutomationService.schedule_auto_close; _db_now() keeps the fraction
schedule_auto_close(jb, j, ticket_id, after_minutes, t) ==
    [jb EXCEPT ![j] = [status |-> "pending", ticket_id |-> ticket_id,
                       run_at |-> t + after_minutes * MinuteTicks,
                       cancelled_early |-> FALSE]]

\* AutomationService.cancel_job: UPDATE ... WHERE id = ?
cancel_job(jb, j) ==
    IF jb[j].status = "absent" THEN jb ELSE [jb EXCEPT ![j].status = "cancelled"]

\* a mark_job_done that writes nothing
mark_job_done_skip(jb, j) == jb

\* AutomationService.mark_job_done
mark_job_done(jb, j) ==
    IF jb[j].status = "absent" THEN jb ELSE [jb EXCEPT ![j].status = "completed"]

\* a mark_job_failed that writes nothing
mark_job_failed_skip(jb, j) == jb

\* AutomationService.mark_job_failed
mark_job_failed(jb, j) ==
    IF jb[j].status = "absent" THEN jb ELSE [jb EXCEPT ![j].status = "failed"]

\* SQLite's datetime(): the value cut to whole seconds
db_datetime(x) == x - (x % TicksPerSecond)

\* the comparison of run_at in the WHERE clause, per driver
run_at_due(run_at, t) ==
    IF driver = "sqlite" THEN db_datetime(run_at) <= db_datetime(t) ELSE run_at <= t

\* AutomationService.due_auto_close_jobs (every row has job_type 'auto_close')
due_auto_close_jobs(jb, t) ==
    {j \in JobIds : jb[j].status = "pending" /\ run_at_due(jb[j].run_at, t)}

NoSchedule == [via |-> "none", minutes |-> 0, result |-> "none"]

\* /ticket scheduleclose
ScheduleClose(t, minutes) ==
    /\ chan[t] # "gone"
    /\ \E j \in JobIds : jobs[j].status = "absent"
    /\ IF minutes < 1 \/ minutes > MaxScheduleMinutes
       THEN /\ UNCHANGED jobs
            /\ sched' = [via |-> "command", minutes |-> minutes, result |-> "ValidationError"]
       ELSE /\ jobs' = schedule_auto_close(jobs, fresh_job_id(jobs), t, minutes, now)
            /\ sched' = [via |-> "command", minutes |-> minutes, result |-> fresh_job_id(jobs)]
    /\ UNCHANGED <<now, driver, guild_present, worker_running, lifeVars, pollVars, notSched,
                   closing, escalating>>

\* AutomationService.schedule_auto_close called by another caller than the command
ServiceSchedule(t, minutes) ==
    /\ \E j \in JobIds : jobs[j].status = "absent"
    /\ jobs' = schedule_auto_close(jobs, fresh_job_id(jobs), t, minutes, now)
    /\ sched' = [via |-> "service", minutes |-> minutes, result |-> fresh_job_id(jobs)]
    /\ UNCHANGED <<now, driver, guild_present, worker_running, lifeVars, pollVars, notSched,
                   closing, escalating>>

\* AutomationService.cancel_job called with the id of a stored job
CancelJob(j) ==
    /\ jobs[j].status # "absent"
    /\ jobs' = [cancel_job(jobs, j) EXCEPT ![j].cancelled_early =
                    @ \/ (jobs[j].status = "pending" /\ now < jobs[j].run_at)]
    /\ UNCHANGED <<now, driver, guild_present, worker_running, lifeVars, pollVars, notPoll>>

\* the bot is removed from the guild: bot.get_guild returns None from now on
GuildRemove ==
    /\ guild_present
    /\ guild_present' = FALSE
    /\ UNCHANGED <<now, driver, jobs, worker_running, lifeVars, pollVars, notPoll>>

\* time passes
PollTick ==
    /\ \E t \in TimePoints : t > now /\ now' = t
    /\ UNCHANGED <<jobVars, lifeVars, pollVars, notPoll>>

(***************************************************************************)
(* TicketsCog.automation_worker, one action per await                      *)
(***************************************************************************)
\* storage or chat-platform calls that raise in one run of the model
MaxFaults == 2
AutoCloseReason == "Scheduled auto-close"

NoStart == [valid |-> FALSE]
StartOfRun ==
    [valid |-> TRUE, now |-> now, jobs |-> jobs, tickets |-> tickets,
     guild_present |-> guild_present, chan |-> chan,
     due |-> due_auto_close_jobs(jobs, now),
     bot_closed |-> staff_stats[BotUser].tickets_closed, found_closed |-> {}]

\* automation_worker is left: by the end of the loop or by an exception
LeaveRun ==
    /\ ppc' = "idle"
    /\ pdue' = {}
    /\ pjob' = "j1"
    /\ pstart' = NoStart
    /\ praised' = {}
    /\ pfault' = FALSE

\* jobs = await due_auto_close_jobs()
PollStart ==
    /\ ppc = "idle"
    /\ worker_running
    /\ ppc' = "loop"
    /\ pdue' = due_auto_close_jobs(jobs, now)
    /\ pstart' = StartOfRun
    /\ UNCHANGED <<pjob, praised, pfault, nfaults, now, jobVars, lifeVars, notPoll>>

\* due_auto_close_jobs raises: the exception leaves automation_worker, and
\* tasks.loop retries or stops, by the type of the exception
PollStartRaise ==
    /\ ppc = "idle"
    /\ worker_running
    /\ nfaults < MaxFaults
    /\ nfaults' = nfaults + 1
    /\ worker_running' \in BOOLEAN
    /\ UNCHANGED <<ppc, pdue, pjob, pstart, praised, pfault, now, driver, jobs,
                   guild_present, lifeVars, notPoll>>

\* for job in jobs
PollTake(j) ==
    /\ ppc = "loop"
    /\ j \in pdue
    /\ pjob' = j
    /\ pdue' = pdue \ {j}
    /\ ppc' = "fetch"
    /\ UNCHANGED <<pstart, praised, pfault, nfaults, now, jobVars, lifeVars, notPoll>>

\* the loop is over
PollEnd ==
    /\ ppc = "loop"
    /\ pdue = {}
    /\ LeaveRun
    /\ UNCHANGED <<nfaults, now, jobVars, lifeVars, notPoll>>

\* a worker that does not look at the status of the ticket row
branch_after_fetch_unchecked(ticket, guild_found, channel_state) ==
    IF ~guild_found THEN "mark_failed"
    ELSE IF channel_state = "gone" THEN "mark_failed"
    ELSE "close"

\* the branch automation_worker takes on the ticket row just fetched (the
\* row always exists: nothing deletes from tickets)
branch_after_fetch(ticket, guild_found, channel_state) ==
    IF ticket.status = "closed" THEN "mark_done"
    ELSE IF ~guild_found THEN "mark_failed"
    ELSE IF channel_state = "gone" THEN "mark_failed"
    ELSE "close"

\* ticket = await ticket_repo.get_by_id(job.ticket_id), and the tests up to
\* the next await
PollFetch ==
    /\ ppc = "fetch"
    /\ ppc' = branch_after_fetch(tickets[jobs[pjob].ticket_id], guild_present,
                                 chan[jobs[pjob].ticket_id])
    /\ pstart' = IF tickets[jobs[pjob].ticket_id].status = "closed"
                 THEN [pstart EXCEPT !.found_closed = @ \cup {pjob}]
                 ELSE pstart
    /\ UNCHANGED <<pdue, pjob, praised, pfault, nfaults, now, jobVars,
                   lifeVars, notPoll>>

\* await mark_job_failed(job.id, "guild_not_found" / "channel_not_found")
PollMarkFailed ==
    /\ ppc = "mark_failed"
    /\ jobs' = mark_job_failed(jobs, pjob)
    /\ ppc' = "loop"
    /\ UNCHANGED <<pdue, pjob, pstart, praised, pfault, nfaults, now, driver,
                   guild_present, worker_running, lifeVars, notPoll>>

\* await ticket_service.close_ticket(ticket, bot.user.id, "Scheduled auto-close")
PollClose ==
    /\ ppc = "close"
    /\ ~close_reason_rejected(AutoCloseReason)
    /\ tickets' = close_ticket_tickets(tickets, jobs[pjob].ticket_id, BotUser,
                                       AutoCloseReason, CURRENT_TIMESTAMP(now))
    /\ staff_stats' = increment_closed(staff_stats, BotUser)
    /\ events' = event_log(events, jobs[pjob].ticket_id, "close")
    /\ audits' = audits + 1
    /\ closing' = [reason |-> AutoCloseReason, result |-> "closed"]
    /\ ppc' = "publish"
    /\ UNCHANGED <<chan, require_reason, pdue, pjob, pstart, praised, pfault,
                   nfaults, now, jobVars, notSched, sched, escalating>>

\* _publish_transcript, _send_transcript_to_log_channel, channel.send
PollPublish ==
    /\ ppc = "publish"
    /\ chan[jobs[pjob].ticket_id] # "gone"
    /\ tickets' = set_transcripts(tickets, jobs[pjob].ticket_id)
    /\ ppc' = "mark_done"
    /\ UNCHANGED <<staff_stats, events, audits, chan, require_reason, pdue, pjob,
                   pstart, praised, pfault, nfaults, now, jobVars, notPoll>>

\* await mark_job_done(job.id)
PollMarkDone ==
    /\ ppc = "mark_done"
    /\ jobs' = mark_job_done(jobs, pjob)
    /\ ppc' = "loop"
    /\ UNCHANGED <<pdue, pjob, pstart, praised, pfault, nfaults, now, driver,
                   guild_present, worker_running, lifeVars, notPoll>>

\* an awaited call inside the try raises: control goes to the except clause
PollRaise ==
    /\ ppc \in {"fetch", "mark_failed", "close", "publish", "mark_done"}
    /\ nfaults < MaxFaults
    /\ nfaults' = nfaults + 1
    /\ ppc' = "handler"
    /\ praised' = praised \cup {pjob}
    /\ pfault' = TRUE
    /\ UNCHANGED <<pdue, pjob, pstart, now, jobVars, lifeVars, notPoll>>

\* except Exception: await mark_job_failed(job.id, str(exc))
PollHandler ==
    /\ ppc = "handler"
    /\ jobs' = mark_job_failed(jobs, pjob)
    /\ ppc' = "loop"
    /\ UNCHANGED <<pdue, pjob, pstart, praised, pfault, nfaults, now, driver,
                   guild_present, worker_running, lifeVars, notPoll>>

\* mark_job_failed raises inside the except clause: the exception leaves
\* automation_worker with the rest of the list unprocessed
PollHandlerRaise ==
    /\ ppc = "handler"
    /\ nfaults < MaxFaults
    /\ nfaults' = nfaults + 1
    /\ LeaveRun
    /\ worker_running' \in BOOLEAN
    /\ UNCHANGED <<now, driver, jobs, guild_present, lifeVars, notPoll>>

WorkerNext ==
    \/ PollStart
    \/ PollStartRaise
    \/ \E j \in JobIds : PollTake(j)
    \/ PollEnd
    \/ PollFetch
    \/ PollMarkFailed
    \/ PollClose
    \/ PollPublish
    \/ PollMarkDone
    \/ PollRaise
    \/ PollHandler
    \/ PollHandlerRaise

\* what staff and the service's callers do around the worker
StaffNext ==
    \/ \E t \in Tickets, m \in MinuteInputs : ScheduleClose(t, m)
    \/ \E j \in JobIds : CancelJob(j)
    \/ GuildRemove
    \/ \E t \in Tickets : HardDeleteMark(t)
    \/ \E t \in Tickets : HardDeleteChannel(t)

\* runs of the worker with no other operation inside a run
SeqNext ==
    \/ WorkerNext
    \/ PollTick
    \/ ppc = "idle" /\ StaffNext

\* minutes given to a schedule call: around both ends of the accepted range
ScheduleInputs == {0, 1, MaxScheduleMinutes, MaxScheduleMinutes + 1}

\* the callers of AutomationService, without the worker
ScheduleNext ==
    \/ \E t \in Tickets, m \in ScheduleInputs : ScheduleClose(t, m)
    \/ \E t \in Tickets, m \in ScheduleInputs : ServiceSchedule(t, m)
    \/ \E j \in JobIds : CancelJob(j)
    \/ \E t \in Tickets : HardDeleteMark(t)
    \/ \E t \in Tickets : HardDeleteChannel(t)
    \/ PollTick

\* the worker with schedule, cancel and guild removal at any of its awaits
CancelNext ==
    \/ WorkerNext
    \/ PollTick
    \/ \E t \in Tickets, m \in MinuteInputs : ScheduleClose(t, m)
    \/ \E j \in JobIds : CancelJob(j)
    \/ GuildRemove

\* the worker, its awaited calls all returning, with schedule, manual close
\* by one staff member (the channel kept) and reopen at any of its awaits
RaceCloser == "a1"
RaceNext ==
    \/ PollStart
    \/ \E j \in JobIds : PollTake(j)
    \/ PollEnd
    \/ PollFetch
    \/ PollClose
    \/ PollPublish
    \/ PollMarkDone
    \/ PollTick
    \/ \E t \in Tickets : ScheduleClose(t, MaxMinute)
    \/ \E t \in Tickets : CloseTicket(t, RaceCloser, "resolved", FALSE)
    \/ \E t \in Tickets : ReopenTicket(t)

\* a step of the worker when every awaited call returns
PollWork ==
    \/ PollStart
    \/ \E j \in JobIds : PollTake(j)
    \/ PollEnd
    \/ PollFetch
    \/ PollMarkFailed
    \/ PollClose
    \/ PollPublish
    \/ PollMarkDone

\* that worker with schedule and cancel at any of its awaits, and with the
\* guild and the channel changing between its runs
FairNext ==
    \/ PollWork
    \/ PollTick
    \/ \E t \in Tickets : ScheduleClose(t, MaxMinute)
    \/ \E j \in JobIds : CancelJob(j)
    \/ ppc = "idle" /\ GuildRemove
    \/ ppc = "idle" /\ \E t \in Tickets : HardDeleteMark(t)
    \/ ppc = "idle" /\ \E t \in Tickets : HardDeleteChannel(t)

PollInit ==
    /\ sched = NoSchedule
    /\ driver \in Drivers
    /\ jobs = [j \in JobIds |-> NoJob]
    /\ guild_present = TRUE
    /\ worker_running = TRUE
    /\ ppc = "idle"
    /\ pdue = {}
    /\ pjob = "j1"
    /\ pstart = NoStart
    /\ praised = {}
    /\ pfault = FALSE
    /\ nfaults = 0

(***************************************************************************)
(* TicketService.create_ticket, one action per await, for the openers of   *)
(* one guild.  check_ticket_open_limits and resolve_category come first,   *)
(* then build_ticket_name -> next_ticket_number, create_text_channel and   *)
(* the three inserts.                                                      *)
(***************************************************************************)
Openers == {"o1", "o2"}
CreateGuild == "g1"
\* create_ticket and blacklist_add calls explored
MaxCreates == 2
\* config.security.max_open_tickets_per_user and ticket_creation_max_per_hour
MaxOpenPerUser == 1
MaxPerHour == 1
\* config.security.ticket_creation_cooldown_seconds, when it is not 0
CooldownSeconds == 1
\* window_seconds of the hourly cap
HourSeconds == 3600
HourTicks == HourSeconds * TicksPerSecond
\* the clock values explored: the start, the end of a cooldown, an hour later
CreateTimes ==
    {h * HourTicks + s * TicksPerSecond : h \in {0, 1}, s \in {0, CooldownSeconds}}
\* `hours` of the blacklist_add command: 0 is for ever
BlacklistHours == {0, 1}

\* the guild's ticket_categories rows
DefaultSlaMinutes == 120
CategoryKeys == {"support", "billing", "unknown"}
category_get(key) ==
    CASE key = "support" -> [found |-> TRUE, is_enabled |-> TRUE, sla_minutes |-> DefaultSlaMinutes]
      [] key = "billing" -> [found |-> TRUE, is_enabled |-> FALSE, sla_minutes |-> DefaultSlaMinutes]
      [] OTHER -> [found |-> FALSE, is_enabled |-> FALSE, sla_minutes |-> 0]

\* resolve_category raises ValidationError for an unknown or a disabled key
resolve_category_raises(key) ==
    ~category_get(key).found \/ ~category_get(key).is_enabled

\* to_iso: isoformat() of an aware UTC datetime keeps every microsecond; None stays None
to_iso(t) == IF t = NoTime THEN NoTime ELSE t

\* a timedelta that takes the minutes for seconds
seconds_delta(m) == m * TicksPerSecond

\* timedelta(minutes=m) on the model's clock
minutes_delta(m) == m * SecondsPerMinute * TicksPerSecond

NoBlacklistRow == [present |-> FALSE, until_at |-> NoTime]

\* BlacklistRepository.add: INSERT ... ON CONFLICT DO UPDATE SET until_at = excluded.until_at
blacklist_add(bl, u, until_at) ==
    [bl EXCEPT ![u] = [present |-> TRUE, until_at |-> until_at]]

\* BlacklistRepository.remove: DELETE FROM ticket_blacklist WHERE guild_id = ? AND user_id = ?
blacklist_remove(bl, u) == [bl EXCEPT ![u] = NoBlacklistRow]

\* a test that keeps the entry through the instant it runs out
blacklist_row_expired_after(row, t) ==
    row.present /\ row.until_at # NoTime /\ row.until_at < t

\* get_active, the test on the fetched row: until_at set and expiry <= now
blacklist_row_expired(row, t) ==
    row.present /\ row.until_at # NoTime /\ row.until_at <= t

\* TicketRepository.list_open_by_user: status IN ('open', 'pending')
list_open_by_user(rs, u) ==
    {i \in DOMAIN rs : rs[i].opener_id = u /\ rs[i].status \in {"open", "pending"}}

cooldown_key(u) == <<"cooldown", u>>
hourly_key(u) == <<"hourly", u>>
CreateKeys == {"cooldown", "hourly"} \X Openers

\* f"security:joins:{guild_id}" and f"security:spam:{guild_id}:{user_id}"
join_key(g) == <<"security", "joins", g>>
\* a spam key that leaves the user out
spam_key_per_guild(g, u) == <<"security", "spam", g, "o1">>
spam_key(g, u) == <<"security", "spam", g, u>>
DetectKeys == {join_key(g) : g \in Guilds} \cup {spam_key(g, u) : g \in Guilds, u \in Openers}
\* every key the bot keeps in its one cache
CacheKeys == CreateKeys \cup DetectKeys

\* the awaits of a create_ticket call that passes every check, in the order
\* the call makes them
create_ticket_steps_allocate_first ==
    <<"ensure", "read", "write", "blacklist", "quota", "cooldown", "hourly",
      "category", "channel", "persist", "participant", "event">>

create_ticket_steps ==
    <<"blacklist", "quota", "cooldown", "hourly", "category",
      "ensure", "read", "write", "channel", "persist", "participant", "event">>

step_index(s) == CHOOSE i \in DOMAIN create_ticket_steps : create_ticket_steps[i] = s

step_after(s) ==
    IF step_index(s) = Len(create_ticket_steps) THEN "idle"
    ELSE create_ticket_steps[step_index(s) + 1]

numCalls == <<cpc, cguild, ccur, issued, ncalls>>
createLocals == <<kcat, kcur, knum, kchan, kid, kcreated>>

\* AdminCog.blacklist_add: until = now + hours when hours > 0, else None
BlacklistAdd(u, hours) ==
    /\ kcalls < MaxCreates
    /\ kcalls' = kcalls + 1
    /\ blacklist' = blacklist_add(blacklist, u,
                        IF hours > 0 THEN to_iso(now + hours * HourTicks) ELSE NoTime)
    /\ UNCHANGED <<cooldown_seconds, kstore, rows, participants, create_events, nchannels,
                   kpc, createLocals, kwrote, kwin, klog, numVars, now, notCreate>>

\* the call leaves create_ticket: its locals are gone, its outcome is known
Leave(o, outcome) ==
    /\ kpc' = [kpc EXCEPT ![o] = "idle"]
    /\ kcat' = [kcat EXCEPT ![o] = "support"]
    /\ kcur' = [kcur EXCEPT ![o] = 0]
    /\ knum' = [knum EXCEPT ![o] = 0]
    /\ kchan' = [kchan EXCEPT ![o] = 0]
    /\ kid' = [kid EXCEPT ![o] = 0]
    /\ kcreated' = [kcreated EXCEPT ![o] = NoTime]
    /\ kwrote' = [kwrote EXCEPT ![o] = FALSE]
    /\ klog' = [opener |-> o, outcome |-> outcome, wrote |-> kwrote[o]]

\* the call goes on to the await after step s
Goto(o, s) ==
    /\ kpc' = [kpc EXCEPT ![o] = s]
    /\ UNCHANGED klog

\* a button or command handler calls create_ticket(guild, opener, panel, category_key, ...)
CreateCall(o) ==
    /\ kpc[o] = "idle"
    /\ kcalls < MaxCreates
    /\ kcalls' = kcalls + 1
    /\ kpc' = [kpc EXCEPT ![o] = create_ticket_steps[1]]
    /\ UNCHANGED <<createTables, createLocals, kwrote, kwin, klog, numVars, now, notCreate>>

\* is_user_blacklisted -> get_active: the SELECT and the test on until_at
CreateBlacklist(o) ==
    /\ kpc[o] = "blacklist"
    /\ IF ~blacklist[o].present
       THEN Goto(o, step_after("blacklist")) /\ UNCHANGED <<createLocals, kwrote>>
       ELSE IF blacklist_row_expired(blacklist[o], now)
       THEN Goto(o, "blacklist_remove") /\ UNCHANGED <<createLocals, kwrote>>
       ELSE Leave(o, "blacklisted")
    /\ UNCHANGED <<createTables, kwin, kcalls, numVars, now, notCreate>>

\* get_active: await self.remove(guild_id, user_id); return None
CreateBlacklistRemove(o) ==
    /\ kpc[o] = "blacklist_remove"
    /\ blacklist' = blacklist_remove(blacklist, o)
    /\ Goto(o, step_after("blacklist"))
    /\ UNCHANGED <<cooldown_seconds, kstore, rows, participants, create_events, nchannels,
                   createLocals, kwrote, kwin, kcalls, numVars, now, notCreate>>

\* open_tickets = await list_open_by_user(...); len(open_tickets) >= max_open_tickets_per_user
CreateQuota(o) ==
    /\ kpc[o] = "quota"
    /\ IF Cardinality(list_open_by_user(rows, o)) >= MaxOpenPerUser
       THEN Leave(o, "limit")
       ELSE Goto(o, step_after("quota")) /\ UNCHANGED <<createLocals, kwrote>>
    /\ UNCHANGED <<createTables, kwin, kcalls, numVars, now, notCreate>>

\* hit(ticket:cooldown:g:u, limit=1, window_seconds=ticket_creation_cooldown_seconds)
CreateCooldown(o) ==
    /\ kpc[o] = "cooldown"
    /\ kstore' = CacheIncr(kstore, cooldown_key(o), cooldown_seconds, now)
    /\ kwin' = [kwin EXCEPT ![cooldown_key(o)] = RefWindowAfterHit(@, cooldown_seconds, now)]
    /\ IF RateLimitResult(kstore'[cooldown_key(o)].value, 1).allowed
       THEN Goto(o, step_after("cooldown")) /\ UNCHANGED <<createLocals, kwrote>>
       ELSE Leave(o, "cooldown")
    /\ UNCHANGED <<blacklist, cooldown_seconds, rows, participants, create_events, nchannels,
                   kcalls, numVars, now, notCreate>>

\* hit(ticket:hourly:g:u, limit=ticket_creation_max_per_hour, window_seconds=3600)
CreateHourly(o) ==
    /\ kpc[o] = "hourly"
    /\ kstore' = CacheIncr(kstore, hourly_key(o), HourSeconds, now)
    /\ kwin' = [kwin EXCEPT ![hourly_key(o)] = RefWindowAfterHit(@, HourSeconds, now)]
    /\ IF RateLimitResult(kstore'[hourly_key(o)].value, MaxPerHour).allowed
       THEN Goto(o, step_after("hourly")) /\ UNCHANGED <<createLocals, kwrote>>
       ELSE Leave(o, "hourly")
    /\ UNCHANGED <<blacklist, cooldown_seconds, rows, participants, create_events, nchannels,
                   kcalls, numVars, now, notCreate>>

\* category = await self.resolve_category(guild.id, category_key); the
\* category_key argument is not read before, and is drawn here
CreateCategory(o, key) ==
    /\ kpc[o] = "category"
    /\ IF resolve_category_raises(key)
       THEN Leave(o, "category")
       ELSE /\ Goto(o, step_after("category"))
            /\ kcat' = [kcat EXCEPT ![o] = key]
            /\ UNCHANGED <<kcur, knum, kchan, kid, kcreated, kwrote>>
    /\ UNCHANGED <<createTables, kwin, kcalls, numVars, now, notCreate>>

\* next_ticket_number: await self.ensure_guild(guild_id)
CreateEnsure(o) ==
    /\ kpc[o] = "ensure"
    /\ guild_settings' = ensure_guild(guild_settings, CreateGuild)
    /\ Goto(o, step_after("ensure"))
    /\ UNCHANGED <<createTables, createLocals, kwrote, kwin, kcalls, numCalls, now, notCreate>>

\* next_ticket_number: row = await self.db.fetchone(...); current = ...
CreateRead(o) ==
    /\ kpc[o] = "read"
    /\ kcur' = [kcur EXCEPT ![o] = read_ticket_counter(guild_settings, CreateGuild)]
    /\ Goto(o, step_after("read"))
    /\ UNCHANGED <<createTables, kcat, knum, kchan, kid, kcreated, kwrote, kwin, kcalls,
                   numVars, now, notCreate>>

\* next_ticket_number: nxt = current + 1; await self.db.execute(UPDATE ...); return nxt
CreateWrite(o) ==
    /\ kpc[o] = "write"
    /\ guild_settings' = write_ticket_counter(guild_settings, CreateGuild, kcur[o] + 1)
    /\ knum' = [knum EXCEPT ![o] = kcur[o] + 1]
    /\ kwrote' = [kwrote EXCEPT ![o] = TRUE]
    /\ Goto(o, step_after("write"))
    /\ UNCHANGED <<createTables, kcat, kcur, kchan, kid, kcreated, kwin, kcalls,
                   numCalls, now, notCreate>>

\* channel = await guild.create_text_channel(...)
CreateChannel(o) ==
    /\ kpc[o] = "channel"
    /\ nchannels' = nchannels + 1
    /\ kchan' = [kchan EXCEPT ![o] = nchannels + 1]
    /\ kwrote' = [kwrote EXCEPT ![o] = TRUE]
    /\ Goto(o, step_after("channel"))
    /\ UNCHANGED <<blacklist, cooldown_seconds, kstore, rows, participants, create_events,
                   kcat, kcur, knum, kid, kcreated, kwin, kcalls, numVars, now, notCreate>>

\* created_at = utc_now(); response_due_at = created_at + timedelta(minutes=sla_minutes);
\* record = TicketRecord(...); await self.deps.ticket_repo.create(record)
TicketRow(o) ==
    [ticket_number |-> knum[o],
     channel_id |-> kchan[o],
     opener_id |-> o,
     category_key |-> kcat[o],
     status |-> "open",
     response_due_at |-> to_iso(now + minutes_delta(category_get(kcat[o]).sla_minutes))]

CreatePersist(o) ==
    /\ kpc[o] = "persist"
    /\ rows' = Append(rows, TicketRow(o))
    /\ kid' = [kid EXCEPT ![o] = Len(rows) + 1]
    /\ kcreated' = [kcreated EXCEPT ![o] = to_iso(now)]
    /\ kwrote' = [kwrote EXCEPT ![o] = TRUE]
    /\ Goto(o, step_after("persist"))
    /\ UNCHANGED <<blacklist, cooldown_seconds, kstore, participants, create_events, nchannels,
                   kcat, kcur, knum, kchan, kwin, kcalls, numVars, now, notCreate>>

\* await self.deps.participant_repo.add(ticket_id, user_id=opener.id, ...): ON CONFLICT DO NOTHING
CreateParticipant(o) ==
    /\ kpc[o] = "participant"
    /\ participants' = participants \cup {<<kid[o], o>>}
    /\ kwrote' = [kwrote EXCEPT ![o] = TRUE]
    /\ Goto(o, step_after("participant"))
    /\ UNCHANGED <<blacklist, cooldown_seconds, kstore, rows, create_events, nchannels,
                   createLocals, kwin, kcalls, numVars, now, notCreate>>

\* await self.deps.event_repo.log(event_type="create", ...); audit log; return record
CreateEvent(o) ==
    /\ kpc[o] = "event"
    /\ create_events' = [create_events EXCEPT ![kid[o]] = @ + 1]
    /\ Leave(o, "created")
    /\ UNCHANGED <<blacklist, cooldown_seconds, kstore, rows, participants, nchannels,
                   kwin, kcalls, numVars, now, notCreate>>

\* time passes
CreateTick ==
    /\ \E t \in CreateTimes : t > now /\ now' = t
    /\ UNCHANGED <<createVars, numVars, notCreate>>

NoOutcome == [opener |-> "none", outcome |-> "none", wrote |-> FALSE]

CreateInit ==
    /\ blacklist = [o \in Openers |-> NoBlacklistRow]
    /\ cooldown_seconds \in {0, CooldownSeconds}
    /\ kstore = [k \in CacheKeys |-> NoEntry]
    /\ rows = <<>>
    /\ participants = {}
    /\ create_events = [i \in 1 .. MaxCreates |-> 0]
    /\ nchannels = 0
    /\ kpc = [o \in Openers |-> "idle"]
    /\ kcat = [o \in Openers |-> "support"]
    /\ kcur = [o \in Openers |-> 0]
    /\ knum = [o \in Openers |-> 0]
    /\ kchan = [o \in Openers |-> 0]
    /\ kid = [o \in Openers |-> 0]
    /\ kcreated = [o \in Openers |-> NoTime]
    /\ kwrote = [o \in Openers |-> FALSE]
    /\ kwin = [k \in CacheKeys |-> [count |-> 0, end |-> 0]]
    /\ klog = NoOutcome
    /\ kcalls = 0

\* create_ticket calls of openers no one blacklists
ThrottleNext ==
    \/ \E o \in Openers : CreateCall(o)
    \/ \E o \in Openers : CreateBlacklist(o)
    \/ \E o \in Openers : CreateQuota(o)
    \/ \E o \in Openers : CreateCooldown(o)
    \/ \E o \in Openers : CreateHourly(o)
    \/ \E o \in Openers, key \in CategoryKeys : CreateCategory(o, key)
    \/ \E o \in Openers : CreateEnsure(o)
    \/ \E o \in Openers : CreateRead(o)
    \/ \E o \in Openers : CreateWrite(o)
    \/ \E o \in Openers : CreateChannel(o)
    \/ \E o \in Openers : CreatePersist(o)
    \/ \E o \in Openers : CreateParticipant(o)
    \/ \E o \in Openers : CreateEvent(o)
    \/ CreateTick

CreateNext ==
    \/ \E o \in Openers : CreateCall(o)
    \/ \E o \in Openers : CreateBlacklist(o)
    \/ \E o \in Openers : CreateBlacklistRemove(o)
    \/ \E o \in Openers : CreateQuota(o)
    \/ \E o \in Openers : CreateCooldown(o)
    \/ \E o \in Openers : CreateHourly(o)
    \/ \E o \in Openers, key \in CategoryKeys : CreateCategory(o, key)
    \/ \E o \in Openers : CreateEnsure(o)
    \/ \E o \in Openers : CreateRead(o)
    \/ \E o \in Openers : CreateWrite(o)
    \/ \E o \in Openers : CreateChannel(o)
    \/ \E o \in Openers : CreatePersist(o)
    \/ \E o \in Openers : CreateParticipant(o)
    \/ \E o \in Openers : CreateEvent(o)
    \/ \E o \in Openers, hours \in BlacklistHours : BlacklistAdd(o, hours)
    \/ CreateTick

\* AdminCog.blacklist_add for a user who has a row: ON CONFLICT DO UPDATE
BlacklistRenew(u, hours) ==
    /\ blacklist[u].present
    /\ blacklist' = blacklist_add(blacklist, u,
                        IF hours > 0 THEN to_iso(now + hours * HourTicks) ELSE NoTime)
    /\ UNCHANGED <<cooldown_seconds, kstore, rows, participants, create_events, nchannels,
                   createCalls, numVars, now, notCreate>>

\* the create_ticket calls of one user, with blacklist_add of that user at
\* any of their awaits
BlacklistedOpener == "o1"
BlacklistNext ==
    \/ CreateCall(BlacklistedOpener)
    \/ CreateBlacklist(BlacklistedOpener)
    \/ CreateBlacklistRemove(BlacklistedOpener)
    \/ CreateQuota(BlacklistedOpener)
    \/ CreateCooldown(BlacklistedOpener)
    \/ CreateHourly(BlacklistedOpener)
    \/ \E key \in CategoryKeys : CreateCategory(BlacklistedOpener, key)
    \/ CreateEnsure(BlacklistedOpener)
    \/ CreateRead(BlacklistedOpener)
    \/ CreateWrite(BlacklistedOpener)
    \/ CreateChannel(BlacklistedOpener)
    \/ CreatePersist(BlacklistedOpener)
    \/ CreateParticipant(BlacklistedOpener)
    \/ CreateEvent(BlacklistedOpener)
    \/ \E hours \in BlacklistHours : BlacklistAdd(BlacklistedOpener, hours)
    \/ \E hours \in BlacklistHours : BlacklistRenew(BlacklistedOpener, hours)
    \/ CreateTick

(***************************************************************************)
(* Staff commands on the rows create_ticket inserted: of each command's    *)
(* writes, the ones on the columns the create flow carries (status and     *)
(* opener_id, the participants and the event log).                         *)
(***************************************************************************)
\* ticket_events rows one ticket gets in a run: its create event and staff commands
MaxRowEvents == 2

\* set_status / set_locked / transfer_owner on the created rows
row_set_status(rs, i, status) == [rs EXCEPT ![i].status = status]
row_set_locked(rs, i, is_locked) ==
    [rs EXCEPT ![i].status = IF is_locked THEN "locked" ELSE "open"]
row_transfer_owner(rs, i, u) == [rs EXCEPT ![i].opener_id = u]

\* a staff command on row i: one statement on tickets, then the event log
RowCommand(i, rs) ==
    /\ i \in DOMAIN rows
    /\ create_events[i] < MaxRowEvents
    /\ rows' = rs
    /\ create_events' = [create_events EXCEPT ![i] = @ + 1]
    /\ UNCHANGED <<blacklist, cooldown_seconds, kstore, nchannels, createCalls,
                   numVars, now, notCreate>>

\* /ticket close, /ticket reopen, /ticket lock, /ticket unlock
CloseCreated(i) ==
    RowCommand(i, row_set_status(rows, i, "closed")) /\ UNCHANGED participants
ReopenCreated(i) ==
    RowCommand(i, row_set_status(rows, i, "open")) /\ UNCHANGED participants
LockCreated(i) ==
    RowCommand(i, row_set_locked(rows, i, TRUE)) /\ UNCHANGED participants
UnlockCreated(i) ==
    RowCommand(i, row_set_locked(rows, i, FALSE)) /\ UNCHANGED participants

\* /ticket transfer: transfer_owner, then participant_repo.add of the new owner
TransferCreated(i, u) ==
    /\ RowCommand(i, row_transfer_owner(rows, i, u))
    /\ participants' = participants \cup {<<i, u>>}

\* no create_ticket call is between two of its awaits
CallsIdle == \A o \in Openers : kpc[o] = "idle"

\* create_ticket calls, concurrent with each other, and staff commands and
\* the passing of time between them
QuotaNext ==
    \/ \E o \in Openers : CreateCall(o)
    \/ \E o \in Openers : CreateBlacklist(o)
    \/ \E o \in Openers : CreateQuota(o)
    \/ \E o \in Openers : CreateCooldown(o)
    \/ \E o \in Openers : CreateHourly(o)
    \/ \E o \in Openers : CreateCategory(o, "support")
    \/ \E o \in Openers : CreateEnsure(o)
    \/ \E o \in Openers : CreateRead(o)
    \/ \E o \in Openers : CreateWrite(o)
    \/ \E o \in Openers : CreateChannel(o)
    \/ \E o \in Openers : CreatePersist(o)
    \/ \E o \in Openers : CreateParticipant(o)
    \/ \E o \in Openers : CreateEvent(o)
    \/ CallsIdle /\ \E i \in 1 .. MaxCreates : CloseCreated(i)
    \/ CallsIdle /\ \E i \in 1 .. MaxCreates : ReopenCreated(i)
    \/ CallsIdle /\ \E i \in 1 .. MaxCreates : LockCreated(i)
    \/ CallsIdle /\ \E i \in 1 .. MaxCreates : UnlockCreated(i)
    \/ CallsIdle /\ \E i \in 1 .. MaxCreates, u \in Openers : TransferCreated(i, u)
    \/ CallsIdle /\ CreateTick

\* the highest escalation level
MaxEscalation == 10
\* levels typed by staff: around both ends of the range, and one inside
EscalationInputs == {-1, 0, 1, MaxEscalation, MaxEscalation + 1}

\* TicketRepository.set_escalation_level
set_escalation_level(tk, t, level) == [tk EXCEPT ![t].escalation_level = level]

\* a range check that forgets the lower end
escalate_rejected_above(level) == level > MaxEscalation

\* the range check at the head of TicketService.escalate
escalate_rejected(level) == level < 0 \/ level > MaxEscalation

NoEscalating == [level |-> 0, result |-> "none"]

\* /ticket escalate: TicketService.escalate
Escalate(t, level) ==
    /\ CanCommand(t)
    /\ IF escalate_rejected(level)
       THEN /\ escalating' = [level |-> level, result |-> "ValidationError"]
            /\ UNCHANGED <<tickets, events>>
       ELSE /\ escalating' = [level |-> level, result |-> "set"]
            /\ tickets' = set_escalation_level(tickets, t, level)
            /\ events' = event_log(events, t, "escalate")
    /\ UNCHANGED <<staff_stats, audits, chan, require_reason, sessVars, notEscalate>>

\* escalate among lock, unlock and reopen
EscalateNext ==
    \/ \E t \in Tickets, level \in EscalationInputs : Escalate(t, level)
    \/ \E t \in Tickets : LockTicket(t)
    \/ \E t \in Tickets : UnlockTicket(t)
    \/ \E t \in Tickets : ReopenTicket(t)

\* close, reopen, lock and unlock typed in the ticket's channel
CloseNext ==
    \/ \E t \in Tickets, a \in Staff, r \in Reasons, del \in BOOLEAN : CloseTicket(t, a, r, del)
    \/ \E t \in Tickets : ReopenTicket(t)
    \/ \E t \in Tickets : LockTicket(t)
    \/ \E t \in Tickets : UnlockTicket(t)

(***************************************************************************)
(* SecurityService: check_member_join_rate and check_user_message_spam,    *)
(* on the cache the ticket service uses too.  Each call awaits hit() and,  *)
(* when the hit is not allowed, awaits security_repo.log().                *)
(***************************************************************************)
DetectCalls == {"d1", "d2"}
DetectKinds == {"joins", "spam"}
\* detector calls explored
MaxDetects == 3
\* config.security.anti_raid_join_threshold, anti_raid_window_seconds and
\* anti_spam_messages_per_10s
JoinThreshold == 1
JoinWindowSeconds == 1
SpamLimit == 1
\* window_seconds of the spam check
SpamWindowSeconds == 10
\* the clock values explored: the start, the end of a join window, the end
\* of a spam window, and a join window later
DetectTimes ==
    {a * TicksPerSecond : a \in {0, JoinWindowSeconds, SpamWindowSeconds,
                                 SpamWindowSeconds + JoinWindowSeconds}}

detect_key(kind, g, u) == IF kind = "joins" THEN join_key(g) ELSE spam_key(g, u)
detect_limit(kind) == IF kind = "joins" THEN JoinThreshold ELSE SpamLimit
detect_window(kind) == IF kind = "joins" THEN JoinWindowSeconds ELSE SpamWindowSeconds
detect_event_type(kind) ==
    IF kind = "joins" THEN "anti_raid_triggered" ELSE "message_spam_detected"
detect_severity(kind) == IF kind = "joins" THEN "high" ELSE "medium"

NoDetect == [pc |-> "idle", kind |-> "joins", guild |-> "g1", user |-> "o1", current |-> 0]
NoDetectResult ==
    [kind |-> "none", guild |-> "g1", user |-> "o1", triggered |-> FALSE, count |-> 0]

\* SecurityEventResult(triggered=...), with details["count"] when triggered
SecurityEventResult(c, triggered) ==
    [kind |-> c.kind, guild |-> c.guild, user |-> c.user, triggered |-> triggered,
     count |-> IF triggered THEN c.current ELSE 0]

\* SecurityRepository.log: INSERT INTO security_events(...)
security_log(ev, g, event_type, severity, count) ==
    Append(ev, [guild |-> g, event_type |-> event_type, severity |-> severity, count |-> count])

createOther ==
    <<blacklist, cooldown_seconds, rows, participants, create_events, nchannels,
      kpc, kcat, kcur, knum, kchan, kid, kcreated, kwrote, klog, kcalls>>
notDetect ==
    <<numVars, now, rateVars, lifeVars, sessVars, jobVars, pollVars, cacheVars, callVars,
      createOther>>

\* on_member_join -> check_member_join_rate(guild_id);
\* on_message -> check_user_message_spam(guild_id, user_id)
DetectCall(d, kind, g, u) ==
    /\ dcall[d].pc = "idle"
    /\ ndetects < MaxDetects
    /\ ndetects' = ndetects + 1
    /\ dcall' = [dcall EXCEPT ![d] = [pc |-> "hit", kind |-> kind, guild |-> g,
                                      user |-> IF kind = "joins" THEN "o1" ELSE u,
                                      current |-> 0]]
    /\ UNCHANGED <<security_events, dres, kstore, kwin, notDetect, detectRest>>

\* result = await self.rate_limiter.hit(key, limit, window_seconds);
\* if result.allowed: return SecurityEventResult(triggered=False)
DetectHit(d) ==
    LET c == dcall[d]
        key == detect_key(c.kind, c.guild, c.user)
        stored == CacheIncr(kstore, key, detect_window(c.kind), now)
        result == RateLimitResult(stored[key].value, detect_limit(c.kind))
    IN  /\ c.pc = "hit"
        /\ kstore' = stored
        /\ kwin' = [kwin EXCEPT ![key] = RefWindowAfterHit(@, detect_window(c.kind), now)]
        /\ IF result.allowed
           THEN /\ dcall' = [dcall EXCEPT ![d] = NoDetect]
                /\ dres' = SecurityEventResult(c, FALSE)
           ELSE /\ dcall' = [dcall EXCEPT ![d] = [c EXCEPT !.pc = "log",
                                                           !.current = result.current]]
                /\ UNCHANGED dres
        /\ UNCHANGED <<security_events, ndetects, notDetect, detectRest>>

\* await self.security_repo.log(guild_id, event_type, severity, payload);
\* return SecurityEventResult(triggered=True, ...)
DetectLog(d) ==
    LET c == dcall[d] IN
    /\ c.pc = "log"
    /\ security_events' = security_log(security_events, c.guild, detect_event_type(c.kind),
                                       detect_severity(c.kind), c.current)
    /\ dcall' = [dcall EXCEPT ![d] = NoDetect]
    /\ dres' = SecurityEventResult(c, TRUE)
    /\ UNCHANGED <<ndetects, kstore, kwin, notDetect, detectRest>>

\* time passes
DetectTick ==
    /\ \E t \in DetectTimes : t > now /\ now' = t
    /\ UNCHANGED <<createVars, numVars, notCreate>>

DetectInit ==
    /\ security_events = <<>>
    /\ dcall = [d \in DetectCalls |-> NoDetect]
    /\ dres = NoDetectResult
    /\ ndetects = 0

\* the detectors alone
DetectNext ==
    \/ \E d \in DetectCalls, kind \in DetectKinds, g \in Guilds, u \in Openers :
          DetectCall(d, kind, g, u)
    \/ \E d \in DetectCalls : DetectHit(d)
    \/ \E d \in DetectCalls : DetectLog(d)
    \/ DetectTick

\* detector calls one after the other beside the create_ticket calls of one
\* opener, on the one cache
SharedOpener == "o1"
SharedDetect == "d1"
\* calls explored together, detector calls and create_ticket calls
MaxSharedCalls == 3
SharedCacheNext ==
    \/ \E kind \in DetectKinds, g \in Guilds, u \in Openers :
          kcalls + ndetects < MaxSharedCalls /\ DetectCall(SharedDetect, kind, g, u)
    \/ DetectHit(SharedDetect)
    \/ DetectLog(SharedDetect)
    \/ DetectTick
    \/ kcalls + ndetects < MaxSharedCalls /\ CreateCall(SharedOpener)
    \/ CreateBlacklist(SharedOpener)
    \/ CreateQuota(SharedOpener)
    \/ CreateCooldown(SharedOpener)
    \/ CreateHourly(SharedOpener)
    \/ \E key \in CategoryKeys : CreateCategory(SharedOpener, key)
    \/ CreateEnsure(SharedOpener)
    \/ CreateRead(SharedOpener)
    \/ CreateWrite(SharedOpener)
    \/ CreateChannel(SharedOpener)
    \/ CreatePersist(SharedOpener)
    \/ CreateParticipant(SharedOpener)
    \/ CreateEvent(SharedOpener)

(***************************************************************************)
(* TicketService.record_feedback: the stars are checked, then              *)
(* submit_feedback upserts the rating and updates the tickets row (two     *)
(* awaited statements), then the feedback event is logged.                 *)
(***************************************************************************)
FeedbackCalls == {"f1", "f2"}
FeedbackTickets == {"t1", "t2"}
\* record_feedback calls explored
MaxFeedback == 2
\* lowest and highest stars accepted
MinStars == 1
MaxStars == 5
StarInputs == {MinStars - 1, MinStars, MaxStars, MaxStars + 1}
\* who submits through which call
FeedbackUser == [f \in FeedbackCalls |-> IF f = "f1" THEN "o1" ELSE "o2"]
NoText == "None"
FeedbackTexts == {NoText, "thanks"}

NoFeedbackCall ==
    [pc |-> "idle", id |-> 0, ticket |-> "t1", user |-> "o1", stars |-> 0, feedback |-> NoText]
NoFeedbackResult ==
    [id |-> 0, ticket |-> "none", user |-> "o1", stars |-> 0, feedback |-> NoText, result |-> "none"]
FeedbackResult(c, result) ==
    [id |-> c.id, ticket |-> c.ticket, user |-> c.user, stars |-> c.stars, feedback |-> c.feedback,
     result |-> result]

\* if stars < 1 or stars > 5: raise ValidationError
stars_rejected(stars) == stars < MinStars \/ stars > MaxStars

\* an INSERT without the ON CONFLICT clause
insert_rating(table, id, t, u, stars, feedback) ==
    table \cup {[id |-> id, ticket_id |-> t, user_id |-> u, stars |-> stars,
                 feedback |-> feedback]}

\* INSERT INTO ticket_ratings(...) VALUES (...)
\* ON CONFLICT(ticket_id) DO UPDATE SET stars = excluded.stars,
\*                                      feedback = excluded.feedback
upsert_rating(table, id, t, u, stars, feedback) ==
    IF \E r \in table : r.ticket_id = t
    THEN {IF r.ticket_id = t THEN [r EXCEPT !.stars = stars, !.feedback = feedback] ELSE r :
            r \in table}
    ELSE table \cup {[id |-> id, ticket_id |-> t, user_id |-> u, stars |-> stars,
                      feedback |-> feedback]}

\* Database.execute: on SQLite every statement runs under one asyncio.Lock,
\* which serves its waiters in the order they came; a call queues for its
\* next statement as soon as the one before returns, so the statements at
\* the steps `pcs` run in the order of the calls.  PostgreSQL statements run
\* on pooled connections, in any order.
sqlite_turn(f, pcs) ==
    driver = "sqlite" =>
        \A g \in FeedbackCalls \ {f} : fcall[g].pc \in pcs => fcall[g].id > fcall[f].id

\* ticket feedback <stars> [message]: record_feedback(ticket, actor.id, stars, message)
FeedbackCall(f, t, u, stars, feedback) ==
    /\ fcall[f].pc = "idle"
    /\ nfeedback < MaxFeedback
    /\ nfeedback' = nfeedback + 1
    /\ LET c == [pc |-> "upsert", id |-> nfeedback + 1, ticket |-> t, user |-> u,
                 stars |-> stars, feedback |-> feedback]
       IN  IF stars_rejected(stars)
           THEN /\ fres' = FeedbackResult(c, "ValidationError")
                /\ UNCHANGED fcall
           ELSE /\ fcall' = [fcall EXCEPT ![f] = c]
                /\ UNCHANGED fres
    /\ UNCHANGED <<ticket_ratings, feedback_cols, feedback_events>>
    /\ UNCHANGED notFeedback

\* submit_feedback, first statement; rating_id = str(uuid4()) is the number
\* of the call, which no other call has
FeedbackUpsert(f) ==
    LET c == fcall[f] IN
    /\ c.pc = "upsert"
    /\ sqlite_turn(f, {"upsert"})
    /\ ticket_ratings' = upsert_rating(ticket_ratings, c.id, c.ticket, c.user, c.stars,
                                       c.feedback)
    /\ fcall' = [fcall EXCEPT ![f].pc = "update"]
    /\ UNCHANGED <<feedback_cols, feedback_events, fres, nfeedback>>
    /\ UNCHANGED notFeedback

\* submit_feedback, second statement: UPDATE tickets SET feedback_stars = ?,
\* feedback_text = ? WHERE id = ?
FeedbackUpdate(f) ==
    LET c == fcall[f] IN
    /\ c.pc = "update"
    /\ sqlite_turn(f, {"upsert", "update"})
    /\ feedback_cols' = [feedback_cols EXCEPT ![c.ticket] =
                            [feedback_stars |-> c.stars, feedback_text |-> c.feedback]]
    /\ fcall' = [fcall EXCEPT ![f].pc = "log"]
    /\ UNCHANGED <<ticket_ratings, feedback_events, fres, nfeedback>>
    /\ UNCHANGED notFeedback

\* event_repo.log(event_type="feedback", payload={stars, feedback})
FeedbackLog(f) ==
    LET c == fcall[f] IN
    /\ c.pc = "log"
    /\ feedback_events' = Append(feedback_events,
                                 [ticket_id |-> c.ticket, actor_id |-> c.user,
                                  stars |-> c.stars, feedback |-> c.feedback])
    /\ fcall' = [fcall EXCEPT ![f] = NoFeedbackCall]
    /\ fres' = FeedbackResult(c, "recorded")
    /\ UNCHANGED <<ticket_ratings, feedback_cols, nfeedback>>
    /\ UNCHANGED notFeedback

FeedbackInit ==
    /\ ticket_ratings = {}
    /\ feedback_cols = [t \in FeedbackTickets |->
                          [feedback_stars |-> 0, feedback_text |-> NoText]]
    /\ feedback_events = <<>>
    /\ fcall = [f \in FeedbackCalls |-> NoFeedbackCall]
    /\ fres = NoFeedbackResult
    /\ nfeedback = 0

FeedbackNext ==
    \/ \E f \in FeedbackCalls, t \in FeedbackTickets, stars \in StarInputs,
          feedback \in FeedbackTexts : FeedbackCall(f, t, FeedbackUser[f], stars, feedback)
    \/ \E f \in FeedbackCalls : FeedbackUpsert(f)
    \/ \E f \in FeedbackCalls : FeedbackUpdate(f)
    \/ \E f \in FeedbackCalls : FeedbackLog(f)

(***************************************************************************)
(* TicketService.sanitize_channel_fragment.  A string is a sequence of     *)
(* characters; one character stands for each class the function tells      *)
(* apart: a lower-case letter, an upper-case letter, a digit, the hyphen,   *)
(* white space, and anything else.                                          *)
(***************************************************************************)
Alphabet == {"a", "A", "0", "-", " ", "!"}
Whitespace == {" "}
\* name[:32]
MaxFragment == 32
\* characters drawn freely before and after a run of letters
MaxHead == 1
MaxTail == 3
\* the lengths of the run of letters: none, and near the cut
PadLengths == {0, MaxFragment - 2, MaxFragment - 1, MaxFragment}

Words(n) == UNION {[1..k -> Alphabet] : k \in 0..n}
Pad(n) == [i \in 1..n |-> "a"]
FragmentInputs ==
    {w1 \o Pad(n) \o w2 : w1 \in Words(MaxHead), n \in PadLengths, w2 \in Words(MaxTail)}

RECURSIVE lstrip(_, _)
lstrip(s, chars) ==
    IF s # <<>> /\ Head(s) \in chars THEN lstrip(Tail(s), chars) ELSE s

RECURSIVE rstrip(_, _)
rstrip(s, chars) ==
    IF s # <<>> /\ s[Len(s)] \in chars THEN rstrip(SubSeq(s, 1, Len(s) - 1), chars) ELSE s

\* str.strip() and str.strip("-")
strip_chars(s, chars) == rstrip(lstrip(s, chars), chars)

\* str.lower()
lower(s) == [i \in 1..Len(s) |-> IF s[i] = "A" THEN "a" ELSE s[i]]

\* the class [^a-z0-9-]
other_char(c) == c \notin {"a", "0", "-", "u", "s", "e", "r"}

\* re.sub(r"[^a-z0-9-]+", "-", name)
RECURSIVE sub_other_runs(_)
sub_other_runs(s) ==
    IF s = <<>> THEN <<>>
    ELSE IF other_char(Head(s))
         THEN <<"-">> \o sub_other_runs(lstrip(s, {c \in Alphabet : other_char(c)}))
         ELSE <<Head(s)>> \o sub_other_runs(Tail(s))

\* re.sub(r"-{2,}", "-", name)
RECURSIVE sub_hyphen_runs(_)
sub_hyphen_runs(s) ==
    IF s = <<>> THEN <<>>
    ELSE IF Len(s) >= 2 /\ s[1] = "-" /\ s[2] = "-"
         THEN <<"-">> \o sub_hyphen_runs(lstrip(s, {"-"}))
         ELSE <<Head(s)>> \o sub_hyphen_runs(Tail(s))

\* name[:n]
prefix(s, n) == SubSeq(s, 1, IF Len(s) < n THEN Len(s) ELSE n)

\* the two substitutions in the other order
sanitize_collapse_first(name) ==
    LET a == lower(strip_chars(name, Whitespace))
        b == sub_hyphen_runs(a)
        c == strip_chars(sub_other_runs(b), {"-"})
    IN  IF prefix(c, MaxFragment) = <<>> THEN <<"u", "s", "e", "r">>
        ELSE prefix(c, MaxFragment)

sanitize_channel_fragment(name) ==
    LET a == lower(strip_chars(name, Whitespace))
        b == sub_other_runs(a)
        c == strip_chars(sub_hyphen_runs(b), {"-"})
    IN  IF prefix(c, MaxFragment) = <<>> THEN <<"u", "s", "e", "r">>
        ELSE prefix(c, MaxFragment)

\* build_ticket_name: user=self.sanitize_channel_fragment(opener.name)
Sanitize ==
    /\ ~frag_done
    /\ frag_result' = sanitize_channel_fragment(frag_name)
    /\ frag_done' = TRUE
    /\ UNCHANGED <<frag_name, notSanitize>>

\* no call in sight
SanitizeIdle == frag_name = <<>> /\ frag_result = <<>> /\ frag_done = FALSE

\* a call about to be made with any of the names
SanitizeInit == frag_name \in FragmentInputs /\ frag_result = <<>> /\ frag_done = FALSE

(***************************************************************************)
(* TicketService.add_internal_note on one ticket: the note is checked,     *)
(* append_internal_note reads the list and writes it back with the note    *)
(* appended (two awaited statements), then the event and the audit entry   *)
(* are logged.                                                             *)
(***************************************************************************)
NoteCalls == {"n1", "n2"}
NoteTexts == {"", " ", "first", "second"}
\* add_internal_note calls explored
MaxNotes == 3

NoNoteCall == [pc |-> "idle", id |-> 0, author_id |-> NoOne, note |-> "", notes |-> <<>>]
NoNoteResult == [id |-> 0, result |-> "none"]
NoteAuthor == [n \in NoteCalls |-> IF n = "n1" THEN "a1" ELSE "a2"]

\* if not note.strip(): raise ValidationError
note_rejected(note) == strip(note) = ""

\* notes.append({"author_id": author_id, "note": note, "ts": _now_iso()})
notes_append(notes, author_id, note, ts) ==
    Append(notes, [author_id |-> author_id, note |-> note, ts |-> ts])

\* /ticket note: add_internal_note(ticket, actor.id, note)
NoteCall(n, note) ==
    /\ ncall[n].pc = "idle"
    /\ nnotes < MaxNotes
    /\ nnotes' = nnotes + 1
    /\ IF note_rejected(note)
       THEN /\ note_res' = [id |-> nnotes + 1, result |-> "ValidationError"]
            /\ UNCHANGED ncall
       ELSE /\ ncall' = [ncall EXCEPT ![n] = [pc |-> "read", id |-> nnotes + 1,
                                              author_id |-> NoteAuthor[n],
                                              note |-> strip(note), notes |-> <<>>]]
            /\ UNCHANGED note_res
    /\ UNCHANGED <<internal_notes, note_added, notNote>>

\* row = await fetchone("SELECT internal_notes_json FROM tickets WHERE id = ?")
NoteRead(n) ==
    /\ ncall[n].pc = "read"
    /\ ncall' = [ncall EXCEPT ![n].pc = "write", ![n].notes = internal_notes]
    /\ UNCHANGED <<internal_notes, note_res, note_added, nnotes, notNote>>

\* notes.append(...); await execute("UPDATE tickets SET internal_notes_json = ? ...")
NoteWrite(n) ==
    /\ ncall[n].pc = "write"
    /\ internal_notes' = notes_append(ncall[n].notes, ncall[n].author_id, ncall[n].note, now)
    /\ ncall' = [ncall EXCEPT ![n].pc = "log"]
    /\ UNCHANGED <<note_res, note_added, nnotes, notNote>>

\* event_repo.log(event_type="note"), audit_repo.log(action="ticket_note"), return
NoteLog(n) ==
    /\ ncall[n].pc = "log"
    /\ note_res' = [id |-> ncall[n].id, result |-> "added"]
    /\ note_added' = note_added \cup {ncall[n].note}
    /\ ncall' = [ncall EXCEPT ![n] = NoNoteCall]
    /\ UNCHANGED <<internal_notes, nnotes, notNote>>

NoteInit ==
    /\ internal_notes = <<>>
    /\ ncall = [n \in NoteCalls |-> NoNoteCall]
    /\ note_res = NoNoteResult
    /\ note_added = {}
    /\ nnotes = 0

NoteNext ==
    \/ \E n \in NoteCalls, note \in NoteTexts : NoteCall(n, note)
    \/ \E n \in NoteCalls : NoteRead(n)
    \/ \E n \in NoteCalls : NoteWrite(n)
    \/ \E n \in NoteCalls : NoteLog(n)

LifeInit ==
    /\ closing = NoClosing
    /\ escalating = NoEscalating
    /\ tickets = [t \in Tickets |-> NewTicket]
    /\ staff_stats = [a \in Members \cup {BotUser} |-> NewStaffRow]
    /\ events = [t \in Tickets |-> [e \in EventTypes |-> 0]]
    /\ audits = 0
    /\ chan = [t \in Tickets |-> "open"]
    /\ require_reason \in BOOLEAN
    /\ spc = [s \in Sessions |-> "idle"]
    /\ sticket = [s \in Sessions |-> "t1"]
    /\ ssnap = [s \in Sessions |-> Fetched(NewTicket)]
    /\ smember = [s \in Sessions |-> "a1"]

LifeNext ==
    \/ \E t \in Tickets : LockTicket(t)
    \/ \E t \in Tickets : UnlockTicket(t)
    \/ \E t \in Tickets, a \in Staff, r \in Reasons, del \in BOOLEAN : CloseTicket(t, a, r, del)
    \/ \E t \in Tickets : ReopenTicket(t)
    \/ \E t \in Tickets : UnclaimTicket(t)
    \/ \E t \in Tickets : SoftDelete(t)
    \/ \E t \in Tickets : HardDeleteMark(t)
    \/ \E t \in Tickets : HardDeleteChannel(t)
    \/ \E s \in Sessions, t \in Tickets, a \in Staff : ClaimFetch(s, t, a)
    \/ \E s \in Sessions : ClaimAct(s)

InitTables ==
    NumInit /\ RateInit /\ CacheInit /\ LifeInit /\ PollInit /\ CreateInit /\ DetectInit
        /\ FeedbackInit /\ NoteInit

Init == InitTables /\ SanitizeIdle /\ LimiterIdle

\* the in-process cache behind one configured limiter
InitLimiter ==
    /\ InitTables /\ SanitizeIdle /\ LimiterInit
    /\ backend = "memory" /\ driver = "sqlite" /\ require_reason = TRUE
    /\ cooldown_seconds = 0

\* the default deployment, about to sanitize a name
InitSanitize ==
    /\ InitTables /\ backend = "memory" /\ driver = "sqlite" /\ require_reason = TRUE
    /\ cooldown_seconds = 0 /\ SanitizeInit /\ LimiterIdle

\* the rate limiter on either cache, with the default database
InitSqlite == Init /\ driver = "sqlite" /\ cooldown_seconds = 0

\* either cache, with the default database and configuration
InitCaches == Init /\ driver = "sqlite" /\ require_reason = TRUE /\ cooldown_seconds = 0

\* the default deployment: in-process cache, SQLite
InitDeployed == Init /\ backend = "memory" /\ driver = "sqlite" /\ cooldown_seconds = 0

\* the worker on either database, close reasons required (the default)
InitWorker == Init /\ backend = "memory" /\ require_reason = TRUE /\ cooldown_seconds = 0

NumNext ==
    \/ \E c \in Creators, g \in Guilds : StartCreate(c, g)
    \/ \E c \in Creators : NtnEnsure(c)
    \/ \E c \in Creators : NtnRead(c)
    \/ \E c \in Creators : NtnWrite(c)

SpecNum == InitDeployed /\ [][NumNext]_vars

SpecRate == InitSqlite /\ [][RateNext]_vars

SpecLimiter == InitLimiter /\ [][LimiterNext]_vars

SpecLife == InitDeployed /\ [][LifeNext]_vars

SpecFirst == InitDeployed /\ [][FirstNext]_vars

SpecSeq == InitWorker /\ [][SeqNext]_vars

SpecCancel == InitWorker /\ [][CancelNext]_vars

\* tasks.loop(seconds=30) starts automation_worker again after every run
\* that returns, and every awaited call of the run returns: the worker, when
\* it can take a step, takes it
SpecFair == InitWorker /\ [][FairNext]_vars /\ WF_vars(PollWork)

SpecSchedule == InitWorker /\ [][ScheduleNext]_vars

SpecClose == InitDeployed /\ [][CloseNext]_vars

SpecEscalate == InitDeployed /\ [][EscalateNext]_vars

SpecDetect == InitCaches /\ [][DetectNext]_vars

SpecSanitize == InitSanitize /\ [][Sanitize]_vars


SpecPair == InitDeployed /\ [][PairNext]_vars

SpecIncr == InitCaches /\ [][IncrNext]_vars

\* the default deployment, with a cooldown configured
InitCreate ==
    /\ Init /\ backend = "memory" /\ driver = "sqlite" /\ require_reason = TRUE
    /\ cooldown_seconds = CooldownSeconds

\* either cache, with a cooldown configured
InitThrottle ==
    Init /\ driver = "sqlite" /\ require_reason = TRUE /\ cooldown_seconds = CooldownSeconds

SpecCreate == InitCreate /\ [][CreateNext]_vars

SpecThrottle == InitThrottle /\ [][ThrottleNext]_vars

SpecRace == InitCreate /\ [][RaceNext]_vars

\* the default deployment on PostgreSQL
InitPostgres ==
    /\ Init /\ backend = "memory" /\ driver = "postgresql" /\ require_reason = TRUE
    /\ cooldown_seconds = CooldownSeconds

SpecFeedback == InitCreate /\ [][FeedbackNext]_vars

SpecFeedbackPg == InitPostgres /\ [][FeedbackNext]_vars

SpecNote == InitCreate /\ [][NoteNext]_vars

SpecSharedCache == InitCreate /\ [][SharedCacheNext]_vars

SpecQuota == InitCreate /\ [][QuotaNext]_vars

SpecBlacklist == InitCreate /\ [][BlacklistNext]_vars

\* ticket_creation_cooldown_seconds = 0, either cache
SpecCooldownOff == InitCaches /\ [][ThrottleNext]_vars

(***************************************************************************)
(* C1: in every guild, whatever the interleaving of concurrent             *)
(* create_ticket calls, the ticket numbers handed out are strictly         *)
(* increasing in the order they are handed out (hence no two calls         *)
(* receive the same number).                                               *)
(***************************************************************************)
C1_NumbersStrictlyIncreasing ==
    \A g \in Guilds :
        \A i, j \in DOMAIN issued[g] :
            i < j => issued[g][i] < issued[g][j]

(***************************************************************************)
(* C2: the k-th hit() since the start of the key's current window returns  *)
(* current = k and allowed = (k <= limit), also beyond the limit; the      *)
(* first hit after the window has elapsed returns current = 1, allowed.    *)
(***************************************************************************)
C2_HitCountsFixedWindow ==
    lastHit.key \in Keys =>
        /\ lastHit.result.current = refWin[lastHit.key].count
        /\ lastHit.result.allowed = (refWin[lastHit.key].count <= lastHit.result.limit)

(* C11: MemoryCache and RedisCache, given the same incr(key, ttl) calls at  *)
(* the same times, return the same counts.                                 *)
C11_BackendsReturnSameCounts == mret = rret

(* C12: the values incr has returned for a key since the key's counter     *)
(* last began are 1, 2, ..., n in the order of return: none twice, none    *)
(* skipped, however the concurrent callers interleave.                     *)
C12_IncrReturnsOneToN ==
    \A k \in Keys : \A i \in DOMAIN iret[k] : iret[k][i] = i

\* three concurrent calls on one key: two have returned, one is still inside
C12_ThirdCallerInFlight ==
    /\ Len(iret["k1"]) = 2
    /\ \E c \in Callers : ipc[c] # "idle" /\ ikey[c] = "k1"
    /\ \A c \in Callers : ipc[c] # "idle" => ittl[c] # 0

(* C3: a job's status only goes from pending to completed, failed or      *)
(* cancelled; a job in one of those three never changes status again,     *)
(* whoever acts: cancel_job, mark_job_done, mark_job_failed, the worker.   *)
C3_TerminalJobsStay ==
    [][\A j \in JobIds :
         /\ (jobs[j].status \in Terminal => jobs'[j].status = jobs[j].status)
         /\ (jobs[j].status = "pending" => jobs'[j].status \in Terminal \cup {"pending"})]_vars

\* the case of C4 at the start of a run of the worker: job j is pending and
\* due, its ticket is not closed, guild and channel resolve
C4_Case(j) ==
    /\ pstart.jobs[j].status = "pending"
    /\ pstart.jobs[j].run_at <= pstart.now
    /\ pstart.tickets[pstart.jobs[j].ticket_id].status # "closed"
    /\ pstart.guild_present
    /\ pstart.chan[pstart.jobs[j].ticket_id] # "gone"

\* what a run that found job j completed and its ticket closed must leave
C4_SecondRunKeeps(j) ==
    (pstart.jobs[j].status = "completed"
        /\ pstart.tickets[pstart.jobs[j].ticket_id].status = "closed")
    => /\ jobs'[j] = pstart.jobs[j]
       /\ tickets'[pstart.jobs[j].ticket_id] = pstart.tickets[pstart.jobs[j].ticket_id]

C5_ExactlyDuePendingJobs ==
    [][/\ (ppc = "idle" /\ ppc' = "loop") =>
             pdue' = {j \in JobIds : jobs[j].status = "pending" /\ jobs[j].run_at <= now}
       /\ (ppc = "loop" /\ ppc' = "fetch") =>
             /\ pstart.jobs[pjob'].status = "pending"
             /\ pstart.jobs[pjob'].run_at <= pstart.now]_vars

(* C6: when the processing of a job raises, at whatever step, the run of   *)
(* the worker still ends by its loop and not by the exception, the job is  *)
(* failed at the end, and every other job the run was given is terminal.   *)
C6_RaiseFailsJobOnly ==
    [][(ppc # "idle" /\ ppc' = "idle") =>
          /\ ppc = "loop"
          /\ \A j \in pstart.due :
                /\ jobs'[j].status \in Terminal
                /\ (j \in praised => jobs'[j].status = "failed")]_vars

(* C7: once a ticket's first_response_at and first_response_by_id are set  *)
(* they never change again, whatever member sends the later message and    *)
(* however old the ticket record held by the handler is.                   *)
C7_FirstResponseSetOnce ==
    [][\A t \in Tickets :
         /\ (tickets[t].first_response_at # NoTime =>
                tickets'[t].first_response_at = tickets[t].first_response_at)
         /\ (tickets[t].first_response_by_id # NoOne =>
                tickets'[t].first_response_by_id = tickets[t].first_response_by_id)
         /\ (tickets'[t].first_response_at = NoTime <=> tickets'[t].first_response_by_id = NoOne)]_vars

\* a2's handler, holding a record fetched before a1's first response was
\* stored, has run to its end (it counted a first response of its own), and
\* the ticket still names a1
C7_StaleSecondWriterDone ==
    \E t \in Tickets :
        /\ tickets[t].first_response_by_id = "a1"
        /\ tickets[t].first_response_at # NoTime
        /\ staff_stats["a2"].first_response_count >= 1
        /\ \A s \in Sessions : spc[s] = "idle"

(* C8: every change of a ticket's status made by lock, unlock, close,      *)
(* reopen or hard delete is one of open->locked, open->closed,             *)
(* open->deleted, locked->open, closed->open, and closed->open goes with   *)
(* reopened_count + 1.                                                     *)
AllowedTransitions ==
    {<<"open", "locked">>, <<"open", "closed">>, <<"open", "deleted">>,
     <<"locked", "open">>, <<"closed", "open">>}

C8_OnlyAllowedTransitions ==
    [][\A t \in Tickets :
         tickets'[t].status # tickets[t].status =>
            /\ <<tickets[t].status, tickets'[t].status>> \in AllowedTransitions
            /\ (tickets[t].status = "closed" =>
                   tickets'[t].reopened_count = tickets[t].reopened_count + 1)]_vars

(* C9: when claim_ticket runs, it writes claimed_by exactly if the stored  *)
(* status is open, pending or locked at that moment; otherwise claimed_by, *)
(* the staff claimed counter and the event log stay as they were.          *)
C9_ClaimOnlyWhenStoredStatusAllows ==
    [][\A s \in Sessions :
         (spc[s] = "claim" /\ spc'[s] = "idle") =>
            IF tickets[sticket[s]].status \in ClaimableStatuses
            THEN tickets'[sticket[s]].claimed_by_id = smember[s]
            ELSE /\ tickets'[sticket[s]].claimed_by_id = tickets[sticket[s]].claimed_by_id
                 /\ staff_stats' = staff_stats
                 /\ events' = events]_vars

(* C10: once a ticket's status is deleted, no later operation changes it.  *)
C10_DeletedIsFinal ==
    [][\A t \in Tickets :
         tickets[t].status = "deleted" => tickets'[t].status = "deleted"]_vars

(* C13: a create_ticket call that a precondition rejects (blacklisted      *)
(* opener, open-ticket quota, cooldown, hourly cap, unknown or disabled    *)
(* category) has written nothing: at every step of the call up to the      *)
(* rejection the guild's ticket counter, the ticket rows, the participants *)
(* and the create events stay as they are, so the counter hands the next   *)
(* call the number it would have handed it anyway.                         *)
Rejections == {"blacklisted", "limit", "cooldown", "hourly", "category"}

C13_Written ==
    <<read_ticket_counter(guild_settings, CreateGuild), rows, participants, create_events>>

C13_RejectedCreateWritesNothing ==
    [][\A o \in Openers :
         kpc[o] # kpc'[o] =>
            /\ C13_Written' # C13_Written
                 => kwrote'[o] \/ (kpc'[o] = "idle" /\ klog'.outcome = "created")
            /\ kpc[o] # "idle" /\ kpc'[o] = "idle" /\ klog'.outcome \in Rejections
                 => ~klog'.wrote /\ C13_Written' = C13_Written
      ]_vars

\* a call is turned away by the quota after another was given number 1
C13_RejectedAfterFirstTicket ==
    /\ klog.outcome = "limit"
    /\ read_ticket_counter(guild_settings, CreateGuild) = 1
    /\ Len(rows) = 1

(* C14: a create_ticket call that succeeds has persisted exactly one new   *)
(* ticket, with status open, the ticket_number next_ticket_number returned *)
(* to it, the id of the channel it created and response_due_at = its       *)
(* created_at + the category's sla_minutes; the opener is a participant of *)
(* that ticket and the ticket has one create event.                        *)
C14_Persisted(o) ==
    /\ kid[o] \in DOMAIN rows
    /\ rows[kid[o]].status = "open"
    /\ rows[kid[o]].opener_id = o
    /\ rows[kid[o]].ticket_number = knum[o]
    /\ knum[o] = kcur[o] + 1
    /\ rows[kid[o]].channel_id = kchan[o]
    /\ rows[kid[o]].response_due_at =
          kcreated[o] + category_get(kcat[o]).sla_minutes * SecondsPerMinute * TicksPerSecond
    /\ Cardinality({i \in DOMAIN rows : rows[i].channel_id = kchan[o]}) = 1

C14_SuccessfulCreatePersistsTicket ==
    [][\A o \in Openers :
         /\ kpc[o] = "persist" /\ kpc'[o] # "persist"
              => /\ Len(rows') = Len(rows) + 1
                 /\ kid'[o] = Len(rows')
                 /\ kcreated'[o] = now
                 /\ C14_Persisted(o)'
         /\ kpc[o] # "idle" /\ kpc'[o] = "idle" /\ klog'.outcome = "created"
              => /\ C14_Persisted(o)
                 /\ rows' = rows
                 /\ <<kid[o], o>> \in participants'
                 /\ create_events'[kid[o]] = 1
      ]_vars

\* a ticket created after the clock has moved, by a call that has returned
C14_CreatedLate ==
    /\ klog.outcome = "created"
    /\ Len(rows) = 1
    /\ rows[1].response_due_at > DefaultSlaMinutes * SecondsPerMinute * TicksPerSecond
    /\ create_events[1] = 1

(* C15: for every opener, of the create_ticket calls whose cooldown hit    *)
(* falls in one cooldown window only the first passes the cooldown check,  *)
(* and of those whose hourly hit falls in one hourly window only the first *)
(* ticket_creation_max_per_hour pass the hourly check; every further call  *)
(* in the window is rejected as throttled.  A window is the one the first  *)
(* hit on the key opens, lasting window_seconds.                           *)
C15_Throttled(o, step, key, limit) ==
    kpc[o] = step /\ kpc'[o] # step
        => /\ kpc'[o] # "idle" => kwin'[key].count <= limit
           /\ kwin'[key].count > limit => kpc'[o] = "idle" /\ klog'.outcome = step

C15_AtMostLimitPassPerWindow ==
    [][\A o \in Openers :
         /\ C15_Throttled(o, "cooldown", cooldown_key(o), 1)
         /\ C15_Throttled(o, "hourly", hourly_key(o), MaxPerHour)
      ]_vars

\* a call that passed the cooldown is turned away by the hourly cap
C15_HourlyCapReached ==
    \E o \in Openers :
        /\ klog.opener = o /\ klog.outcome = "hourly"
        /\ kwin[hourly_key(o)].count = MaxPerHour + 1
        /\ kwin[cooldown_key(o)].count = 1

(* C16: get_active, reading an entry whose until_at is at or before now,   *)
(* returns none (the opener is let through) and deletes the row; reading   *)
(* an entry with no until_at or a later until_at it returns the entry (the *)
(* opener is turned away); reading no row it returns none.  A deleted row  *)
(* comes back only by blacklist_add, so later reads return none till then. *)
C16_GetActiveDropsExpiredEntries ==
    [][\A o \in Openers :
         /\ kpc[o] = "blacklist" /\ kpc'[o] # "blacklist"
              => LET row == blacklist[o] IN
                 /\ ~row.present => kpc'[o] = step_after("blacklist")
                 /\ row.present /\ row.until_at # NoTime /\ row.until_at <= now
                      => kpc'[o] = "blacklist_remove"
                 /\ row.present /\ (row.until_at = NoTime \/ row.until_at > now)
                      => kpc'[o] = "idle" /\ klog'.outcome = "blacklisted"
         /\ kpc[o] = "blacklist_remove" /\ kpc'[o] # "blacklist_remove"
              => ~blacklist'[o].present /\ kpc'[o] = step_after("blacklist")
         /\ ~blacklist[o].present /\ blacklist'[o].present
              => kpc' = kpc /\ kcalls' = kcalls + 1
      ]_vars

\* get_active has read an entry that runs out at this very instant and is
\* about to delete it
C16_EntryExpiringNowRead ==
    \E o \in Openers :
        /\ kpc[o] = "blacklist_remove"
        /\ blacklist[o].present
        /\ blacklist[o].until_at = now

(* C17: once cancel_job(j) has completed on a job that was pending and not *)
(* yet due, no poll processes j: the worker never closes the ticket on     *)
(* behalf of j and the status of j stays cancelled.                        *)
C17_CancelledBeforeDueStays ==
    [][\A j \in JobIds :
         jobs[j].cancelled_early
            => /\ jobs'[j].status = "cancelled"
               /\ ~(ppc = "close" /\ pjob = j /\ tickets' # tickets)
      ]_vars

C18_Inserted(j) ==
    /\ sched'.result = j
    /\ jobs[j].status = "absent"
    /\ jobs'[j].status = "pending"
    /\ jobs'[j].run_at = now + sched'.minutes * SecondsPerMinute * TicksPerSecond
    /\ \A k \in JobIds \ {j} : jobs'[k] = jobs[k]

C18_Rejected ==
    /\ sched'.result = "ValidationError"
    /\ jobs' = jobs

CommandValidatesMinutes ==
    [][sched' # sched
         => IF sched'.via = "command"
                 /\ ~(sched'.minutes >= 1 /\ sched'.minutes <= MaxScheduleMinutes)
            THEN C18_Rejected
            ELSE \E j \in JobIds : C18_Inserted(j)
      ]_vars

\* the command has turned 10081 minutes away after accepting 10080
CommandRejectedAfterLongestAccepted ==
    /\ sched = [via |-> "command", minutes |-> MaxScheduleMinutes + 1,
                result |-> "ValidationError"]
    /\ jobs["j1"].status = "pending"
    /\ jobs["j1"].run_at >= MaxScheduleMinutes * MinuteTicks
    /\ jobs["j2"].status = "absent"

(* C19: with require_ticket_close_reason set, a close_ticket call with an  *)
(* empty or whitespace-only reason raises ValidationError and leaves the   *)
(* ticket's status and close fields, the staff closed counters and the     *)
(* event log as they were; every other call sets the status to closed,     *)
(* records the reason and the actor, counts for the actor and logs a close *)
(* event.                                                                  *)
C19_CloseStep ==
    \/ closing' # closing
    \/ \E t \in Tickets : events'[t]["close"] # events[t]["close"]

C19_Closed(t, a) ==
    /\ tickets'[t].status = "closed"
    /\ tickets'[t].close_reason = closing'.reason
    /\ tickets'[t].closed_by_id = a
    /\ staff_stats'[a].tickets_closed = staff_stats[a].tickets_closed + 1
    /\ events'[t]["close"] = events[t]["close"] + 1

C19_BlankReasonRejected ==
    [][C19_CloseStep
         => IF require_reason /\ closing'.reason \in {"", " "}
            THEN /\ closing'.result = "ValidationError"
                 /\ UNCHANGED <<tickets, staff_stats, events>>
            ELSE /\ closing'.result = "closed"
                 /\ \E t \in Tickets, a \in Staff : C19_Closed(t, a)
      ]_vars

\* a whitespace-only reason has just been refused on a ticket that an
\* earlier close and reopen left open
C19_BlankRefusedOnReopenedTicket ==
    /\ require_reason
    /\ closing = [reason |-> " ", result |-> "ValidationError"]
    /\ \E t \in Tickets :
          /\ tickets[t].status = "open"
          /\ tickets[t].close_reason = "resolved"
          /\ events[t]["close"] = 1

(* C20: an escalate call with a level below 0 or above 10 raises           *)
(* ValidationError and leaves the ticket's escalation level (and the event *)
(* log) as it was, a call with a level in 0..10 stores the level, and in   *)
(* every reachable state every ticket's escalation_level is within 0..10.  *)
C20_EscalateStep ==
    \/ escalating' # escalating
    \/ \E t \in Tickets : events'[t]["escalate"] # events[t]["escalate"]
    \/ \E t \in Tickets : tickets'[t].escalation_level # tickets[t].escalation_level

C20_EscalationLevelInRange ==
    /\ [](\A t \in Tickets : tickets[t].escalation_level \in 0 .. 10)
    /\ [][C20_EscalateStep
            => IF escalating'.level < 0 \/ escalating'.level > 10
               THEN /\ escalating'.result = "ValidationError"
                    /\ UNCHANGED <<tickets, events>>
               ELSE /\ escalating'.result = "set"
                    /\ \E t \in Tickets :
                          /\ tickets'[t].escalation_level = escalating'.level
                          /\ events'[t]["escalate"] = events[t]["escalate"] + 1
         ]_vars

\* level 11 has just been refused on a ticket that stands at level 10
C20_ElevenRefusedAtTen ==
    /\ escalating = [level |-> MaxEscalation + 1, result |-> "ValidationError"]
    /\ \E t \in Tickets : tickets[t].escalation_level = MaxEscalation

(* C21: a detector call returns triggered = true exactly when the count of *)
(* hits on its key in the current window, this call included, exceeds the  *)
(* limit (anti_raid_join_threshold per guild for joins,                    *)
(* anti_spam_messages_per_10s per guild and user over 10 seconds for       *)
(* spam), and exactly those calls append one security event, of severity   *)
(* high for joins and medium for spam.                                     *)
C21_TriggeredExactlyOverLimit ==
    [][\A d \in DetectCalls :
         LET c == dcall[d]
             key == detect_key(c.kind, c.guild, c.user)
             limit == IF c.kind = "joins" THEN JoinThreshold ELSE SpamLimit
         IN
         /\ c.pc = "hit" /\ dcall'[d].pc # "hit"
              => /\ dcall'[d].pc = "log" <=> kwin'[key].count > limit
                 /\ dcall'[d].pc = "idle"
                      => ~dres'.triggered /\ security_events' = security_events
         /\ c.pc = "log" /\ dcall'[d].pc # "log"
              => /\ dres'.triggered
                 /\ Len(security_events') = Len(security_events) + 1
                 /\ security_events'[Len(security_events')].severity =
                       (IF c.kind = "joins" THEN "high" ELSE "medium")
      ]_vars

(* C22: every step of a detector call leaves alone the cache entry of      *)
(* every key but its own (the guild's join key, or the spam key of the     *)
(* guild and user), so the cooldown and hourly counters of create_ticket   *)
(* and the counters of other guilds and users keep their values, and it    *)
(* leaves the ticket rows, participants, ticket events and blacklist       *)
(* unchanged; only the hit step touches the cache at all.  Hence a spam    *)
(* call triggers only when the counter of its own guild and user already   *)
(* held the limit.                                                         *)
C22_OwnKey(c) ==
    IF c.kind = "joins" THEN <<"security", "joins", c.guild>>
    ELSE <<"security", "spam", c.guild, c.user>>

C22_DetectorTouchesOwnKeyOnly ==
    [][\A d \in DetectCalls :
         LET c == IF dcall[d].pc = "idle" THEN dcall'[d] ELSE dcall[d] IN
         dcall'[d] # dcall[d]
           => /\ \A k \in CacheKeys \ {C22_OwnKey(c)} : kstore'[k] = kstore[k]
              /\ dcall[d].pc # "hit" => kstore' = kstore
              /\ UNCHANGED <<rows, participants, create_events, blacklist, tickets>>
              /\ dcall[d].pc = "hit" /\ dcall'[d].pc = "log" /\ c.kind = "spam"
                   => /\ kstore[C22_OwnKey(c)].present
                      /\ kstore[C22_OwnKey(c)].value >= SpamLimit
      ]_vars

\* with a ticket created and its cooldown counted, and one message of o1
\* counted, the first message of o2 in the same guild does not trigger
C22_SecondUserNotTriggered ==
    /\ rows # <<>>
    /\ kstore[<<"cooldown", "o1">>].present
    /\ kstore[<<"security", "spam", "g1", "o1">>].value = 1
    /\ kstore[<<"security", "spam", "g1", "o2">>].value = 1
    /\ dres.kind = "spam" /\ dres.user = "o2" /\ ~dres.triggered

(* C23: a record_feedback call with stars below 1 or above 5 ends in       *)
(* ValidationError and leaves the ratings, the tickets row and the event   *)
(* log as they were; a call with stars from 1 to 5 is not refused; at all  *)
(* times a ticket has at most one rating row; and right after the upsert   *)
(* of a submission the one rating row of its ticket holds the stars and    *)
(* the text of that submission, the rows of other tickets unchanged.       *)
C23_Stored == <<ticket_ratings, feedback_cols, feedback_events>>

C23_OneRowPerTicket ==
    \A r1, r2 \in ticket_ratings : r1.ticket_id = r2.ticket_id => r1 = r2

C23_FeedbackStep ==
    /\ nfeedback' # nfeedback
         => LET refused == fres' # fres
                stars == IF refused THEN fres'.stars
                         ELSE fcall'[CHOOSE f \in FeedbackCalls : fcall'[f] # fcall[f]].stars
            IN
            /\ refused <=> (stars < 1 \/ stars > 5)
            /\ refused => fres'.result = "ValidationError" /\ fcall' = fcall
            /\ UNCHANGED C23_Stored
    /\ \A f \in FeedbackCalls :
         /\ fcall[f].pc # "idle" => fcall[f].stars \in 1..5
         /\ fcall[f].pc = "upsert" /\ fcall'[f].pc # "upsert"
              => /\ \E r \in ticket_ratings' :
                      /\ r.ticket_id = fcall[f].ticket
                      /\ r.stars = fcall[f].stars /\ r.feedback = fcall[f].feedback
                 /\ \A r \in ticket_ratings' :
                      r.ticket_id # fcall[f].ticket => r \in ticket_ratings
                 /\ \A r \in ticket_ratings :
                      r.ticket_id # fcall[f].ticket => r \in ticket_ratings'

C23_OneRatingHoldingLatest ==
    []C23_OneRowPerTicket /\ [][C23_FeedbackStep]_vars

\* a second submission for t1 has replaced the stars and the text of the first
C23_SecondSubmissionReplaced ==
    /\ Len(feedback_events) = 2
    /\ feedback_events[1].ticket_id = "t1" /\ feedback_events[2].ticket_id = "t1"
    /\ feedback_events[1].stars = 5 /\ feedback_events[1].feedback = "thanks"
    /\ feedback_events[2].stars = 1 /\ feedback_events[2].feedback = NoText
    /\ ticket_ratings =
         {[id |-> 1, ticket_id |-> "t1", user_id |-> "o1", stars |-> 1, feedback |-> NoText]}

(* C24: for every name, sanitize_channel_fragment returns a string of 1 to *)
(* 32 characters, each a lower-case letter, a digit or a hyphen, equal to  *)
(* this: lower-case the name, keep its runs of letters and digits, join    *)
(* them by one hyphen each (so that every run of other characters and      *)
(* hyphens between two of them gives one hyphen and the ones at the ends   *)
(* give none), cut after 32 characters; or "user" when no run is left.     *)
RECURSIVE C24_Joined(_, _, _)
C24_Joined(s, gap, acc) ==
    IF s = <<>> THEN acc
    ELSE LET ch == IF Head(s) = "A" THEN "a" ELSE Head(s) IN
         IF ch \in {"a", "0"}
         THEN C24_Joined(Tail(s), FALSE,
                         acc \o (IF gap /\ acc # <<>> THEN <<"-">> ELSE <<>>) \o <<ch>>)
         ELSE C24_Joined(Tail(s), TRUE, acc)

C24_Expected(name) ==
    LET joined == C24_Joined(name, FALSE, <<>>) IN
    IF joined = <<>> THEN <<"u", "s", "e", "r">>
    ELSE IF Len(joined) <= 32 THEN joined ELSE SubSeq(joined, 1, 32)

C24_SanitizedFragment ==
    frag_done
        => /\ Len(frag_result) \in 1..32
           /\ \A i \in 1..Len(frag_result) : frag_result[i] \in {"a", "0", "-", "u", "s", "e", "r"}
           /\ frag_result = C24_Expected(frag_name)

\* a name cut after 32 characters, the last one kept a hyphen
C24_CutAfterHyphen ==
    /\ frag_done
    /\ frag_name = <<" ">> \o [i \in 1..31 |-> "a"] \o <<"!", "-", "A">>
    /\ frag_result = [i \in 1..31 |-> "a"] \o <<"-">>

(* C25: when the worker fetches the ticket of a due job and finds it       *)
(* closed, it goes on to mark_job_done without calling close_ticket: from  *)
(* the fetch to the end of that job the ticket row (closed_at,             *)
(* closed_by_id and close_reason with it), the staff counters and the      *)
(* event log are unchanged by the worker, and the job is then completed;   *)
(* and in one run of the worker, with no other operation inside the run,   *)
(* the worker closes the ticket at most once.                              *)
C25_Untouched == <<tickets, staff_stats, events>>

C25_SkipStep(unlessRaised) ==
    /\ ppc = "fetch" /\ ppc' \notin {"fetch", "handler"}
       /\ tickets[jobs[pjob].ticket_id].status = "closed"
         => ppc' = "mark_done" /\ UNCHANGED C25_Untouched
    /\ pstart.valid /\ pjob \in pstart.found_closed /\ ppc = "mark_done" /\ ppc' # ppc
         => /\ UNCHANGED C25_Untouched
            /\ \/ jobs'[pjob].status = "completed" /\ ppc' = "loop"
               \/ unlessRaised /\ ppc' = "handler"
    /\ pstart'.valid
         => staff_stats'[BotUser].tickets_closed <= pstart'.bot_closed + 1

C26_DueJobsReachTerminal ==
    \A j \in JobIds :
        (jobs[j].status = "pending" /\ jobs[j].run_at <= now)
            ~> (jobs[j].status \in {"completed", "failed", "cancelled"})

\* a job became due while the worker was busy with the other job, in a run
\* that did not select it: it waits for the next run
C26_DueJobWaitedForNextRun ==
    \E j \in JobIds :
        /\ pstart.valid /\ j \notin pstart.due
        /\ pstart.jobs[j].status = "pending" /\ pstart.jobs[j].run_at <= now
        /\ jobs[j].status = "pending"
        /\ ppc # "idle" /\ pjob # j

(* C27: close_ticket does not look at the status of the ticket.  The       *)
(* worker, once its fetch has found the ticket open, can always go on to   *)
(* its close call, also when a manual close has closed the ticket in       *)
(* between; that call then succeeds like any other: it stamps              *)
(* close_reason, closed_by_id and closed_at again, logs one more close     *)
(* event and adds one to the closed counter of the bot user, beside the    *)
(* event and the counter increment of the manual close.                    *)
C27_WorkerCanClose == ppc = "close" => ENABLED PollClose

C27_CloseStep ==
    LET t == jobs[pjob].ticket_id IN
    /\ ppc = "close" /\ ppc' = "publish"
         => /\ tickets'[t].status = "closed"
            /\ tickets'[t].close_reason = "Scheduled auto-close"
            /\ tickets'[t].closed_by_id = BotUser
            /\ tickets'[t].closed_at = now - (now % TicksPerSecond)
            /\ events'[t]["close"] = events[t]["close"] + 1
            /\ staff_stats'[BotUser].tickets_closed = staff_stats[BotUser].tickets_closed + 1
            /\ \A a \in Staff : staff_stats'[a] = staff_stats[a]
    /\ ppc = "close" /\ ppc' = ppc /\ closing' # closing
         => /\ closing'.result = "closed"
            /\ tickets'[t].status = "closed"
            /\ tickets'[t].closed_by_id = RaceCloser
            /\ events'[t]["close"] = events[t]["close"] + 1
            /\ staff_stats'[RaceCloser].tickets_closed
                 = staff_stats[RaceCloser].tickets_closed + 1

C27_BothClosesSucceed == []C27_WorkerCanClose /\ [][C27_CloseStep]_vars

\* the run found the ticket open, a manual close came before the close of
\* the worker, and the worker closed it once more
C27_ClosedTwice ==
    /\ pstart.valid /\ pstart.found_closed = {}
    /\ pstart.tickets["t1"].status = "open"
    /\ tickets["t1"].reopened_count = pstart.tickets["t1"].reopened_count
    /\ ppc = "publish"
    /\ tickets["t1"].closed_by_id = BotUser
    /\ staff_stats[RaceCloser].tickets_closed = 1
    /\ staff_stats[BotUser].tickets_closed = 1
    /\ events["t1"]["close"] = 2

(* C28: the note list of a ticket only grows at its end: every step leaves *)
(* the notes it held in place and in order; and whenever no                *)
(* add_internal_note call is under way, the list holds the note of every   *)
(* call that returned.                                                     *)
C28_Kept ==
    /\ Len(internal_notes') >= Len(internal_notes)
    /\ \A i \in 1..Len(internal_notes) : internal_notes'[i] = internal_notes[i]

C28_AllAdded ==
    (\A n \in NoteCalls : ncall[n].pc = "idle")
        => \A note \in note_added : \E i \in 1..Len(internal_notes) : internal_notes[i].note = note

C28_NotesAppendOnly == []C28_AllAdded /\ [][C28_Kept]_vars

(* C29: over all register_staff_message calls on the ticket, in every      *)
(* interleaving, add_first_response runs at most once (the                 *)
(* first_response_count of all staff together is at most one for the one   *)
(* ticket), and a call that fetched the ticket after its first response    *)
(* was recorded does not run it.                                           *)
C29_MetricCount ==
    staff_stats["a1"].first_response_count + staff_stats["a2"].first_response_count
    + staff_stats[TicketOpener].first_response_count

C29_SkipsWhenSet ==
    \A s \in Sessions :
        spc[s] = "msg_add" /\ ssnap[s].first_response_at # NoTime
            => spc'[s] # "msg_metric"

RECURSIVE C30_AllowedFrom(_, _, _)
C30_AllowedFrom(k, a, b) ==
    IF a > b \/ a > MaxRateTime THEN 0
    ELSE allowed_at[k][a] + C30_AllowedFrom(k, a + 1, b)

C30_AllowedPerWindowBounded ==
    \A k \in Keys :
        /\ win_allowed[k] <= hlimit
        /\ \A a \in 0 .. MaxRateTime :
             C30_AllowedFrom(k, a, a + hwindow * TicksPerSecond) <= 2 * hlimit

\* twice the limit reached: a window filled to the limit at its start, the
\* next one filled the moment the first ends, and a further hit refused
C30_TwiceLimitInOneStretch ==
    /\ hlimit = 2 /\ hwindow = 1
    /\ \E a \in 0 .. MaxRateTime :
         C30_AllowedFrom("k1", a, a + hwindow * TicksPerSecond) = 2 * hlimit
    /\ win_allowed["k1"] = hlimit
    /\ lastHit.key = "k1" /\ ~lastHit.result.allowed

(* C31: whenever the worker calls close_ticket for the job in hand, the    *)
(* stored status of that job is not cancelled at that moment, in every     *)
(* interleaving of cancel_job with the run.                                *)
C31_NoCloseForCancelledJob ==
    [][ppc = "close" /\ ppc' = "publish" => jobs[pjob].status # "cancelled"]_vars

(* C32: when the worker marks a job failed, the attempt on that job has    *)
(* left the ticket as it was: status, close fields and the closed counter  *)
(* of the bot.  Stated for runs with one due job and nothing else running  *)
(* inside the run, where the state before the attempt is the state at the  *)
(* start of the run.                                                       *)
C32_FailedJobLeftTicketAlone ==
    [][(/\ ppc \in {"mark_failed", "handler"}
        /\ ppc' = "loop"
        /\ jobs'[pjob].status = "failed"
        /\ pstart.due = {pjob})
       => /\ tickets'[jobs[pjob].ticket_id] = pstart.tickets[jobs[pjob].ticket_id]
          /\ staff_stats'[BotUser].tickets_closed = pstart.bot_closed]_vars

(* C34: in every reachable state the is_locked flag of a ticket is TRUE    *)
(* exactly when its status is locked, whatever lock, unlock, close, reopen *)
(* and delete operations came before.                                      *)
C34_LockedFlagMatchesStatus ==
    \A t \in Tickets : tickets[t].is_locked <=> tickets[t].status = "locked"

(* C33: in every reachable state, for every user, the tickets with that    *)
(* user as opener and status open or pending number at most                *)
(* max_open_tickets_per_user, whatever create, close, reopen, lock, unlock *)
(* and transfer operations came before.                                    *)
C33_OpenTicketsWithinLimit ==
    \A u \in Openers : Cardinality(list_open_by_user(rows, u)) <= MaxOpenPerUser

(* C35: get_active deletes a blacklist row only when the row stored at the *)
(* moment of the delete is expired, so an entry that blacklist_add wrote   *)
(* between the read and the delete (no expiry, or an expiry ahead) is      *)
(* still there afterwards.                                                 *)
C35_DeletesExpiredRowsOnly ==
    [][\A o \in Openers :
          (kpc[o] = "blacklist_remove" /\ kpc'[o] # "blacklist_remove")
          => blacklist_row_expired(blacklist[o], now)]_vars

(* C36: with ticket_creation_cooldown_seconds = 0 the cooldown check       *)
(* rejects no create_ticket call (the counters of hit() run out, no user   *)
(* stays throttled).                                                       *)
C36_NoCooldownRejection ==
    cooldown_seconds = 0 => klog.outcome # "cooldown"

(* C37: a create_ticket call that passed the cooldown and hourly checks    *)
(* and then failed at resolve_category does not count against the opener:  *)
(* the retry of that opener, who has created no ticket so far, is not      *)
(* rejected by the cooldown nor by the hourly cap.                         *)
C37_FailedCallNotCounted ==
    [][\A o \in Openers :
          (/\ klog = [opener |-> o, outcome |-> "category", wrote |-> FALSE]
           /\ \A i \in DOMAIN rows : rows[i].opener_id # o
           /\ kpc[o] \in {"cooldown", "hourly"}
           /\ kpc'[o] = "idle")
          => klog'.outcome \notin {"cooldown", "hourly"}]_vars

(* C38: once every record_feedback call on a ticket has returned, the      *)
(* feedback_stars and feedback_text of the ticket's row equal the stars    *)
(* and feedback of the ticket's rating row, in every interleaving.         *)
C38_TicketColumnsMatchRating ==
    (\A f \in FeedbackCalls : fcall[f].pc = "idle")
    => \A r \in ticket_ratings :
          feedback_cols[r.ticket_id] =
              [feedback_stars |-> r.stars, feedback_text |-> r.feedback]

(* C39: a first response is recorded for staff only: no message of the     *)
(* ticket's opener sets first_response_at or first_response_by_id, so      *)
(* first_response_by_id never equals the opener_id of the ticket.          *)
C39_OpenerIsNeverFirstResponder ==
    \A t \in Tickets : tickets[t].first_response_by_id # TicketOpener

(* C40: for every input the output of sanitize_channel_fragment neither    *)
(* starts nor ends with a hyphen and has no two hyphens in a row, and the  *)
(* function applied to its own output returns that output.                 *)
C40_CleanAndIdempotent ==
    frag_done =>
        /\ frag_result # <<>>
        /\ frag_result[1] # "-"
        /\ frag_result[Len(frag_result)] # "-"
        /\ \A i \in 1 .. Len(frag_result) - 1 :
              ~(frag_result[i] = "-" /\ frag_result[i + 1] = "-")
        /\ sanitize_channel_fragment(frag_result) = frag_result

=============================================================================
